---- MODULE Spec2Model ----
(***************************************************************************)
(* A model of python/paddle/tensor/search.py: the Python wrappers of the   *)
(* tensor search operations (argsort, sort, argmax, argmin, nonzero,       *)
(* where, searchsorted, bucketize, ...).                                   *)
(*                                                                         *)
(* A call of a wrapper is one step of the state machine.  The state holds  *)
(* the execution mode, the wrapper called last, its arguments, the native  *)
(* operators it dispatched (or the graph nodes it appended), the error it  *)
(* raised, the value it returned, and the storage of the operands after    *)
(* the call.                                                               *)
(*                                                                         *)
(* Spec is one call from the state after import, on operands drawn from    *)
(* the bounds.  SeqSpec is calls one after another on tensors the program  *)
(* keeps: there mem holds those tensors, and each call is given them as    *)
(* they are then.                                                          *)
(*                                                                         *)
(* The native kernels behind _C_ops, and the other paddle functions the    *)
(* wrappers call (full, zeros_like, cast, add, slice), are not part of     *)
(* search.py; they are modelled from their documented contract.            *)
(***************************************************************************)
EXTENDS Integers, Sequences, FiniteSets, TLC

VARIABLES mode, api, args, ops, err, out, mem

vars == <<mode, api, args, ops, err, out, mem>>

----------------------------------------------------------------------------
(* Bounds of the model *)

\* largest number of elements of an enumerated tensor
MaxNumel == 4
\* largest dimension of an enumerated tensor
MaxDim == 3
\* enumerated tensors hold the values 0..MaxVal
MaxVal == 1

----------------------------------------------------------------------------
(* Tensors: a shape, an element type and the elements in row-major order *)

Modes == {"dynamic", "pir", "static"}

Dtypes == {"bool", "int64", "float16"}

RECURSIVE Prod(_)
Prod(s) == IF s = <<>> THEN 1 ELSE Head(s) * Prod(Tail(s))

\* (the concatenations make the shape and the elements plain sequences)
Tensor(shape, dtype, data) ==
    [shape |-> shape \o <<>>, dtype |-> dtype, data |-> data \o <<>>]

Rank(t) == Len(t.shape)

Numel(t) == Prod(t.shape)

Max2(a, b) == IF a >= b THEN a ELSE b

\* the coordinates of the element at row-major position i (0-based)
RECURSIVE Unravel(_, _)
Unravel(i, shape) ==
    IF shape = <<>> THEN <<>>
    ELSE LET inner == Prod(Tail(shape))
         IN  <<i \div inner>> \o Unravel(i % inner, Tail(shape))

\* the row-major position (0-based) of the element at coordinates c
RECURSIVE Ravel(_, _)
Ravel(c, shape) ==
    IF shape = <<>> THEN 0
    ELSE Head(c) * Prod(Tail(shape)) + Ravel(Tail(c), Tail(shape))

At(t, c) == t.data[Ravel(c, t.shape) + 1]

Min2(a, b) == IF a <= b THEN a ELSE b

\* every shape of rank r whose dimensions are in 1..MaxDim, with at most n
\* elements
RECURSIVE ShapesOfRank(_, _)
ShapesOfRank(r, n) ==
    IF r = 0 THEN {<<>>}
    ELSE UNION {{<<d>> \o s : s \in ShapesOfRank(r - 1, n \div d)} :
                    d \in 1..Min2(MaxDim, n)}

\* the enumerated tensors are scalars (rank 0), vectors and matrices
Ranks == {0, 1, 2}

Shapes == UNION {ShapesOfRank(r, MaxNumel) : r \in Ranks}

TensorsOf(shape, dtype, vals) ==
    {Tensor(shape, dtype, d) : d \in [1..Prod(shape) -> vals]}

\* the tensor of the given shape holding start, start+1, ... in row-major order
Arange(shape, dtype, start) ==
    Tensor(shape, dtype, [i \in 1..Prod(shape) |-> start + i - 1])

----------------------------------------------------------------------------
(* Python values: None, a scalar, a Tensor *)

PyNone == [kind |-> "None"]

PyScalar(v) == [kind |-> "scalar", val |-> v]

PyTensor(t) == [kind |-> "Tensor", t |-> t]

PyInt(v) == [kind |-> "int", val |-> v]

\* a value of another Python type (a float, a str)
PyOther(kind) == [kind |-> kind, val |-> 0]

\* what a call that raised returns
NoValue == [kind |-> "None"]

\* The errors: "TypeError" and "ValueError" are raised by search.py and by the
\* framework's argument checks; "NativeError" stands for an error raised by a
\* native operator or by another paddle function, whose Python type search.py
\* does not decide.

----------------------------------------------------------------------------
(* The log of a call: the native operators it dispatched through _C_ops,   *)
(* the graph nodes it appended through LayerHelper.append_op, and the      *)
(* other paddle functions it called                                        *)

Op(name, via, attrs) == [op |-> name, via |-> via, attrs |-> attrs]

NoAttrs == [none |-> TRUE]

\* the result of a wrapper: the error raised ("none" when it returned), the
\* log of the call and the value returned
Result(e, log, value) == [err |-> e, ops |-> log, out |-> value]

Raise(e, log) == Result(e, log, NoValue)

OpNames(log) == {log[i].op : i \in 1..Len(log)}

\* the entries of the log that reach a native kernel of this module
Dispatched(log) ==
    {i \in 1..Len(log) : log[i].via \in {"_C_ops", "append_op"}}

----------------------------------------------------------------------------
(* Shape broadcasting: trailing dimensions aligned, size-1 dimensions      *)
(* stretched                                                               *)

\* dimension k (1-based, counted on the common rank r) of shape s
DimAt(s, k, r) == IF k <= r - Len(s) THEN 1 ELSE s[k - (r - Len(s))]

BroadcastOK(a, b) ==
    LET r == Max2(Len(a), Len(b))
    IN  \A k \in 1..r :
            \/ DimAt(a, k, r) = DimAt(b, k, r)
            \/ DimAt(a, k, r) = 1
            \/ DimAt(b, k, r) = 1

BroadcastShape(a, b) ==
    LET r == Max2(Len(a), Len(b))
    IN  [k \in 1..r |-> Max2(DimAt(a, k, r), DimAt(b, k, r))]

\* the element of t that position i (0-based) of the broadcast shape reads
BroadcastElem(t, shape, i) ==
    LET c  == Unravel(i, shape)
        r  == Len(shape)
        rt == Len(t.shape)
        ct == [k \in 1..rt |-> IF t.shape[k] = 1 THEN 0 ELSE c[k + (r - rt)]]
    IN  At(t, ct)

BroadcastTo(t, shape) ==
    Tensor(shape, t.dtype,
           [i \in 1..Prod(shape) |-> BroadcastElem(t, shape, i - 1)])

----------------------------------------------------------------------------
(* paddle functions the wrappers call; their code is outside search.py *)

\* paddle.full(shape, fill_value, dtype)
paddle_full(shape, v, dtype) ==
    Tensor(shape, dtype, [i \in 1..Prod(shape) |-> v])

\* paddle.zeros_like(x)
paddle_zeros_like(t) ==
    Tensor(t.shape, t.dtype, [i \in 1..Numel(t) |-> 0])

\* paddle.cast(x, dtype): to bool, nonzero becomes True (1) and zero False (0)
paddle_cast(t, dtype) ==
    Tensor(t.shape, dtype,
           [i \in 1..Numel(t) |->
               IF dtype = "bool" THEN (IF t.data[i] # 0 THEN 1 ELSE 0)
               ELSE t.data[i]])

\* paddle.add(x, y): elementwise, the operands broadcast to the common shape
paddle_add(a, b) ==
    LET shape == BroadcastShape(a.shape, b.shape)
    IN  Tensor(shape, a.dtype,
               [i \in 1..Prod(shape) |->
                   BroadcastElem(a, shape, i - 1) + BroadcastElem(b, shape, i - 1)])

\* paddle.slice(x, axes=[1], starts=[i], ends=[i + 1]) of a 2-D tensor:
\* column i (0-based), kept as a column
paddle_slice_column(t, i) ==
    Tensor(<<t.shape[1], 1>>, t.dtype,
           [r \in 1..t.shape[1] |-> t.data[(r - 1) * t.shape[2] + i + 1]])

----------------------------------------------------------------------------
(* Native kernels behind _C_ops; their code is outside search.py *)

\* the row-major positions (0-based) of the nonzero elements, ascending
RECURSIVE NonzeroPositions(_, _)
NonzeroPositions(data, i) ==
    IF i > Len(data) THEN <<>>
    ELSE (IF data[i] # 0 THEN <<i - 1>> ELSE <<>>) \o NonzeroPositions(data, i + 1)

RECURSIVE Flatten(_)
Flatten(rows) == IF rows = <<>> THEN <<>> ELSE Head(rows) \o Flatten(Tail(rows))

\* _C_ops.nonzero(x): the [Z, R] tensor of the coordinates of the nonzero
\* elements, in row-major scan order
C_ops_nonzero(x) ==
    LET pos == NonzeroPositions(x.data, 1)
    IN  Tensor(<<Len(pos), Rank(x)>>, "int64",
               Flatten([z \in 1..Len(pos) |-> Unravel(pos[z], x.shape)]))

\* _C_ops.where(condition, x, y): the elementwise select of three tensors of
\* one shape
C_ops_where(c, x, y) ==
    Tensor(x.shape, x.dtype,
           [i \in 1..Numel(x) |-> IF c.data[i] # 0 THEN x.data[i] ELSE y.data[i]])

\* axis + rank for a negative axis
NormAxis(axis, rank) == IF axis < 0 THEN axis + rank ELSE axis

\* a tensor of rank 0 is reduced as a tensor of one element
AxisShape(shape) == IF shape = <<>> THEN <<1>> ELSE shape

AxisOK(axis, shape) ==
    axis >= -Len(AxisShape(shape)) /\ axis < Len(AxisShape(shape))

\* the shape without dimension ax (1-based), or with that dimension made 1
ReducedShape(shape, ax, keepdim) ==
    IF keepdim THEN [k \in 1..Len(shape) |-> IF k = ax THEN 1 ELSE shape[k]]
    ELSE [k \in 1..(Len(shape) - 1) |-> IF k < ax THEN shape[k] ELSE shape[k + 1]]

\* the coordinates c with the index j put in at dimension ax (1-based); c has
\* the dimension ax when keepdim, and lacks it otherwise
WithAxis(c, ax, j, keepdim) ==
    IF keepdim THEN [k \in 1..Len(c) |-> IF k = ax THEN j ELSE c[k]]
    ELSE [k \in 1..(Len(c) + 1) |->
             IF k < ax THEN c[k] ELSE IF k = ax THEN j ELSE c[k - 1]]

\* the elements of x along dimension ax (1-based) that position i (0-based) of
\* the reduced shape stands for
SliceAt(x, ax, i, keepdim) ==
    LET shape == AxisShape(x.shape)
        c     == Unravel(i, ReducedShape(shape, ax, keepdim))
    IN  [j \in 1..shape[ax] |->
            x.data[Ravel(WithAxis(c, ax, j - 1, keepdim), shape) + 1]]

\* the scan of the arg-reduction kernels: the position (1-based) of the
\* extreme element of v[1..n], the earlier one kept on a tie
RECURSIVE ArgScan(_, _, _)
ArgScan(v, n, isMax) ==
    IF n = 1 THEN 1
    ELSE LET best == ArgScan(v, n - 1, isMax)
         IN  IF (isMax /\ v[n] > v[best]) \/ (~isMax /\ v[n] < v[best])
             THEN n ELSE best

\* _C_ops.argmax / _C_ops.argmin (x, axis, keepdim, flatten, dtype)
C_ops_arg(x, axis, keepdim, flatten, dtype, isMax) ==
    IF flatten
    THEN Tensor(IF keepdim THEN [k \in 1..Rank(x) |-> 1] ELSE <<>>, dtype,
                <<ArgScan(x.data, Numel(x), isMax) - 1>>)
    ELSE LET shape == AxisShape(x.shape)
             ax    == NormAxis(axis, Len(shape)) + 1
             rs    == ReducedShape(shape, ax, keepdim)
         IN  Tensor(IF x.shape = <<>> THEN <<>> ELSE rs, dtype,
                    [i \in 1..Prod(rs) |->
                        LET v == SliceAt(x, ax, i - 1, keepdim)
                        IN  ArgScan(v, Len(v), isMax) - 1])

\* the kernels take an axis within [-rank, rank) and an integer output dtype
C_ops_arg_ok(x, axis, flatten, dtype) ==
    /\ dtype \in {"int32", "int64"}
    /\ flatten \/ AxisOK(axis, x.shape)

\* the binary search of the searchsorted kernel in row[lo+1..hi]: the first
\* position (0-based) whose element is not less than v, or, with right,
\* the first whose element is greater than v
RECURSIVE BinarySearch(_, _, _, _, _)
BinarySearch(row, v, right, lo, hi) ==
    IF lo >= hi THEN lo
    ELSE LET mid == (lo + hi) \div 2
         IN  IF (~right /\ row[mid + 1] < v) \/ (right /\ row[mid + 1] <= v)
             THEN BinarySearch(row, v, right, mid + 1, hi)
             ELSE BinarySearch(row, v, right, lo, mid)

LastDim(t) == t.shape[Len(t.shape)]

\* the row of sorted_sequence that element i (1-based) of values is searched
\* in: the one row of a 1-D sequence, else the row of the same leading
\* coordinates
SearchRow(seq, values, i) ==
    IF Rank(seq) = 1 THEN seq.data
    ELSE LET r == (i - 1) \div LastDim(values)
         IN  SubSeq(seq.data, r * LastDim(seq) + 1, (r + 1) * LastDim(seq))

\* _C_ops.searchsorted(sorted_sequence, values, out_int32, right)
C_ops_searchsorted(seq, values, out_int32, right) ==
    Tensor(values.shape, IF out_int32 THEN "int32" ELSE "int64",
           [i \in 1..Numel(values) |->
               LET row == SearchRow(seq, values, i)
               IN  BinarySearch(row, values.data[i], right, 0, Len(row))])

\* the kernel takes a 1-D sequence, or one whose leading dimensions are those
\* of values
C_ops_searchsorted_ok(seq, values) ==
    \/ Rank(seq) = 1
    \/ /\ Rank(seq) > 1
       /\ Rank(seq) = Rank(values)
       /\ SubSeq(seq.shape, 1, Rank(seq) - 1) = SubSeq(values.shape, 1, Rank(seq) - 1)

\* the order of the argsort kernel on the positions of a slice v: by value,
\* ascending or descending; equal elements by their rank in tie
SortsBefore(v, a, b, descending, tie) ==
    \/ (~descending /\ v[a] < v[b])
    \/ (descending /\ v[a] > v[b])
    \/ (v[a] = v[b] /\ tie[a] < tie[b])

\* how many positions of v sort before each position
SortRanks(v, descending, tie) ==
    [j \in 1..Len(v) |->
        Cardinality({k \in 1..Len(v) : SortsBefore(v, k, j, descending, tie)})]
        \o <<>>

\* the positions 1..Len(v) of v in sorted order
SortPositions(v, descending, tie) ==
    LET ranks == SortRanks(v, descending, tie)
    IN  [r \in 1..Len(v) |-> CHOOSE j \in 1..Len(v) : ranks[j] = r - 1] \o <<>>

\* the order of the original positions: what a stable sort breaks ties by
Identity(n) == [j \in 1..n |-> j]

\* the orders an unstable sort may break ties by
Perms(n) == {p \in [1..n -> 1..n] : \A a, b \in 1..n : p[a] = p[b] => a = b}

\* the elements of x along dimension ax (1-based) through the element of
\* coordinates c
AxisSlice(x, ax, c) ==
    [j \in 1..x.shape[ax] |->
        x.data[Ravel([c EXCEPT ![ax] = j - 1], x.shape) + 1]] \o <<>>

\* the first element (1-based, linear) of the slice along dimension ax
\* through element i
SliceStart(x, ax, i) ==
    Ravel([Unravel(i - 1, x.shape) EXCEPT ![ax] = 0], x.shape) + 1

\* _C_ops.argsort(x, axis, descending, stable): the positions (0-based) that
\* sort every slice along the axis; tie is the order in which this build
\* leaves equal elements when the sort is not stable
C_ops_argsort_ids(x, axis, descending, stable, tie) ==
    LET ax     == NormAxis(axis, Rank(x)) + 1
        t      == IF stable THEN Identity(x.shape[ax]) ELSE tie
        sorted == [i \in 1..Numel(x) |->
                      IF SliceStart(x, ax, i) = i
                      THEN SortPositions(AxisSlice(x, ax, Unravel(i - 1, x.shape)),
                                         descending, t)
                      ELSE <<>>] \o <<>>
    IN  Tensor(x.shape, "int64",
               [i \in 1..Numel(x) |->
                   sorted[SliceStart(x, ax, i)][Unravel(i - 1, x.shape)[ax] + 1] - 1])

\* the sorted values: x read at the sorted positions
C_ops_argsort_out(x, axis, descending, stable, tie) ==
    LET ax  == NormAxis(axis, Rank(x)) + 1
        ids == C_ops_argsort_ids(x, axis, descending, stable, tie)
    IN  Tensor(x.shape, x.dtype,
               [i \in 1..Numel(x) |->
                   LET c == Unravel(i - 1, x.shape)
                   IN  x.data[Ravel([c EXCEPT ![ax] = ids.data[i]], x.shape) + 1]])

C_ops_argsort_ok(x, axis) == Rank(x) >= 1 /\ AxisOK(axis, x.shape)

\* the shape of x with dimension ax (1-based) made k
TopkShape(shape, ax, k) ==
    [d \in 1..Len(shape) |-> IF d = ax THEN k ELSE shape[d]] \o <<>>

\* _C_ops.topk(x, k, axis, largest, sorted): for every element of the
\* outputs, the position (1-based) in its slice of x it is taken from. The
\* slice is ordered by value, descending when largest, equal elements in
\* original order, and the first k are taken; when not sorted, order is the
\* order in which this build returns those k
TopkPositions(x, k, axis, largest, sorted, order) ==
    LET ax    == NormAxis(axis, Rank(x)) + 1
        shape == TopkShape(x.shape, ax, k)
    IN  [i \in 1..Prod(shape) |->
            LET c == Unravel(i - 1, shape)
                v == AxisSlice(x, ax, c)
                j == c[ax] + 1
            IN  SortPositions(v, largest, Identity(Len(v)))
                    [IF sorted THEN j ELSE order[j]]] \o <<>>

\* the index output of topk
C_ops_topk_indices(x, k, axis, largest, sorted, order) ==
    LET ax  == NormAxis(axis, Rank(x)) + 1
        pos == TopkPositions(x, k, axis, largest, sorted, order)
    IN  Tensor(TopkShape(x.shape, ax, k), "int64",
               [i \in 1..Len(pos) |-> pos[i] - 1])

\* the value output of topk
C_ops_topk_out(x, k, axis, largest, sorted, order) ==
    LET ax    == NormAxis(axis, Rank(x)) + 1
        shape == TopkShape(x.shape, ax, k)
        pos   == TopkPositions(x, k, axis, largest, sorted, order)
    IN  Tensor(shape, x.dtype,
               [i \in 1..Len(pos) |->
                   x.data[Ravel([Unravel(i - 1, shape) EXCEPT ![ax] = pos[i] - 1],
                                x.shape) + 1]])

\* the kernels of topk and kthvalue take an axis within [-rank, rank) and a
\* k within 1..length of that axis
C_ops_k_ok(x, k, axis) ==
    /\ Rank(x) >= 1
    /\ AxisOK(axis, x.shape)
    /\ k >= 1
    /\ k <= x.shape[NormAxis(axis, Rank(x)) + 1]

\* _C_ops.kthvalue(x, k, axis, keepdim): for every slice along the axis the
\* position (1-based) of its k-th smallest element, equal elements in
\* original order
KthPositions(x, k, axis, keepdim) ==
    LET ax == NormAxis(axis, Rank(x)) + 1
        rs == ReducedShape(x.shape, ax, keepdim)
    IN  [i \in 1..Prod(rs) |->
            LET v == SliceAt(x, ax, i - 1, keepdim) \o <<>>
            IN  SortPositions(v, FALSE, Identity(Len(v)))[k]] \o <<>>

\* the index output of kthvalue
C_ops_kthvalue_indices(x, k, axis, keepdim) ==
    LET ax  == NormAxis(axis, Rank(x)) + 1
        pos == KthPositions(x, k, axis, keepdim)
    IN  Tensor(ReducedShape(x.shape, ax, keepdim), "int64",
               [i \in 1..Len(pos) |-> pos[i] - 1])

\* the value output of kthvalue
C_ops_kthvalue_out(x, k, axis, keepdim) ==
    LET ax  == NormAxis(axis, Rank(x)) + 1
        pos == KthPositions(x, k, axis, keepdim)
    IN  Tensor(ReducedShape(x.shape, ax, keepdim), x.dtype,
               [i \in 1..Len(pos) |-> SliceAt(x, ax, i - 1, keepdim)[pos[i]]])

\* the axis the graph nodes top_k_v2 and kthvalue take when the attribute
\* is not given
DefaultAxis == -1

\* the keepdim the graph node kthvalue takes when the attribute is not given
DefaultKeepdim == FALSE

\* the mode kernel scans a slice v in ascending sorted order: the rank
\* (1-based) in that order at which the run of the mode ends. A run is the
\* ranks holding one value; the longest run wins, the later of two runs of
\* one length
ModeRank(v) ==
    LET n      == Len(v)
        sorted == SortPositions(v, FALSE, Identity(n))
        len    == [r \in 1..n |->
                      Cardinality({q \in 1..n : v[sorted[q]] = v[sorted[r]]})] \o <<>>
        ends   == {r \in 1..n : r = n \/ v[sorted[r + 1]] # v[sorted[r]]}
    IN  CHOOSE r \in ends :
            \A s \in ends : len[s] < len[r] \/ (len[s] = len[r] /\ s <= r)

\* the position (1-based) in the slice v of the element at that rank
ModePosition(v) == SortPositions(v, FALSE, Identity(Len(v)))[ModeRank(v)]

\* _C_ops.mode(x, axis, keepdim): the value output
C_ops_mode_out(x, axis, keepdim) ==
    LET ax == NormAxis(axis, Rank(x)) + 1
        rs == ReducedShape(x.shape, ax, keepdim)
    IN  Tensor(rs, x.dtype,
               [i \in 1..Prod(rs) |->
                   LET v == SliceAt(x, ax, i - 1, keepdim) \o <<>>
                   IN  v[ModePosition(v)]])

\* _C_ops.mode(x, axis, keepdim): the index output
C_ops_mode_indices(x, axis, keepdim) ==
    LET ax == NormAxis(axis, Rank(x)) + 1
        rs == ReducedShape(x.shape, ax, keepdim)
    IN  Tensor(rs, "int64",
               [i \in 1..Prod(rs) |->
                   ModePosition(SliceAt(x, ax, i - 1, keepdim) \o <<>>) - 1])

C_ops_mode_ok(x, axis) == Rank(x) >= 1 /\ AxisOK(axis, x.shape)

\* _C_ops.masked_select(x, mask): x and mask broadcast to their common
\* shape, and the elements of x where mask is True, in row-major order
C_ops_masked_select(x, mask) ==
    LET shape == BroadcastShape(x.shape, mask.shape)
        bx    == BroadcastTo(x, shape)
        pos   == NonzeroPositions(BroadcastTo(mask, shape).data, 1)
    IN  Tensor(<<Len(pos)>>, x.dtype, [z \in 1..Len(pos) |-> bx.data[pos[z] + 1]])

\* the kernel takes a boolean mask whose shape broadcasts with that of x
C_ops_masked_select_ok(x, mask) ==
    mask.dtype = "bool" /\ BroadcastOK(x.shape, mask.shape)

\* _C_ops.index_select(x, index, axis): along the axis, slice j of the output
\* is slice index[j] of x
C_ops_index_select(x, index, axis) ==
    LET ax    == NormAxis(axis, Rank(x)) + 1
        shape == TopkShape(x.shape, ax, Numel(index))
    IN  Tensor(shape, x.dtype,
               [i \in 1..Prod(shape) |->
                   LET c == Unravel(i - 1, shape)
                   IN  x.data[Ravel([c EXCEPT ![ax] = index.data[c[ax] + 1]],
                                    x.shape) + 1]])

\* the kernel takes an axis within [-rank, rank) and a 1-D index whose
\* values are positions of that axis
C_ops_index_select_ok(x, index, axis) ==
    /\ Rank(x) >= 1
    /\ AxisOK(axis, x.shape)
    /\ Rank(index) = 1
    /\ \A j \in 1..Numel(index) :
           /\ index.data[j] >= 0
           /\ index.data[j] < x.shape[NormAxis(axis, Rank(x)) + 1]

\* _C_ops.index_sample(x, index): out[b, m] = x[b, index[b, m]]
C_ops_index_sample(x, index) ==
    Tensor(index.shape, x.dtype,
           [i \in 1..Numel(index) |->
               LET b == (i - 1) \div index.shape[2]
               IN  x.data[b * x.shape[2] + index.data[i] + 1]])

\* the kernel takes a 2-D x and a 2-D index of as many rows, whose values
\* are positions of a row of x
C_ops_index_sample_ok(x, index) ==
    /\ Rank(x) = 2
    /\ Rank(index) = 2
    /\ x.shape[1] = index.shape[1]
    /\ \A i \in 1..Numel(index) :
           index.data[i] >= 0 /\ index.data[i] < x.shape[2]

----------------------------------------------------------------------------
(* Argument validation of the framework (base.data_feeder); its code is    *)
(* outside search.py.  The checks are skipped in dynamic mode.             *)

\* check_variable_and_dtype(input, name, expected_dtype, op): TRUE when it
\* returns, FALSE when it raises TypeError
check_variable_and_dtype(m, t, expected) ==
    m = "dynamic" \/ t.dtype \in expected

in_dynamic_mode(m) == m = "dynamic"

in_pir_mode(m) == m = "pir"

in_dynamic_or_pir_mode(m) == m \in {"dynamic", "pir"}

----------------------------------------------------------------------------
(* search.py: nonzero *)

NonzeroDtypes ==
    {"int16", "int32", "int64", "uint16", "float16", "float32", "float64", "bool"}

\* for i in range(rank): list_out.append(paddle.slice(outs, [1], [i], [i + 1]))
\* the split taking the columns in reverse order
nonzero_split_reversed(outs, rank) ==
    [i \in 1..rank |-> paddle_slice_column(outs, rank - i)]

nonzero_split(outs, rank) ==
    [i \in 1..rank |-> paddle_slice_column(outs, i - 1)]

nonzero_split_log(rank) ==
    [i \in 1..rank |-> Op("slice", "paddle", [axis |-> 1, start |-> i - 1])]

\* nonzero without its as_tuple argument: always the tuple
nonzero_always_tuple(m, x, as_tuple) ==
    LET rank == Len(x.shape)
        outs == C_ops_nonzero(x)
        log  == IF in_dynamic_or_pir_mode(m)
                THEN <<Op("nonzero", "_C_ops", NoAttrs)>>
                ELSE <<Op("where_index", "append_op", NoAttrs)>>
    IN  IF ~in_dynamic_or_pir_mode(m)
           /\ ~check_variable_and_dtype(m, x, NonzeroDtypes)
        THEN Raise("TypeError", <<>>)
        ELSE IF rank = 1
        THEN Result("none", log, [kind |-> "tuple", items |-> <<outs>>])
        ELSE Result("none", log \o nonzero_split_log(rank),
                    [kind |-> "tuple", items |-> nonzero_split(outs, rank)])

nonzero(m, x, as_tuple) ==
    LET rank == Len(x.shape)
        outs == C_ops_nonzero(x)
        log  == IF in_dynamic_or_pir_mode(m)
                THEN <<Op("nonzero", "_C_ops", NoAttrs)>>
                ELSE <<Op("where_index", "append_op", NoAttrs)>>
    IN  IF ~in_dynamic_or_pir_mode(m)
           /\ ~check_variable_and_dtype(m, x, NonzeroDtypes)
        THEN Raise("TypeError", <<>>)
        ELSE IF ~as_tuple
        THEN Result("none", log, PyTensor(outs))
        ELSE IF rank = 1
        THEN Result("none", log, [kind |-> "tuple", items |-> <<outs>>])
        ELSE Result("none", log \o nonzero_split_log(rank),
                    [kind |-> "tuple", items |-> nonzero_split(outs, rank)])

----------------------------------------------------------------------------
(* search.py: where *)

WhereDtypes == {"uint16", "float16", "float32", "float64", "int32", "int64"}

\* np.array([x]).dtype.name of a Python int
ScalarDtype == "int64"

\* if np.isscalar(x): x = paddle.full([1], x, np.array([x]).dtype.name)
where_scalar(x) ==
    IF x.kind = "scalar" THEN PyTensor(paddle_full(<<1>>, x.val, ScalarDtype))
    ELSE x

where_scalar_log(x) ==
    IF x.kind = "scalar" THEN <<Op("full", "paddle", NoAttrs)>> ELSE <<>>

\* where_broadcast with the condition's zeros left out of broadcast_zeros
where_broadcast_no_condition_zeros(condition, x, y) ==
    LET broadcast_zeros == paddle_add(paddle_zeros_like(x), paddle_zeros_like(y))
        cast_cond       == paddle_cast(condition, x.dtype)
    IN  [condition |-> paddle_cast(paddle_add(cast_cond, broadcast_zeros), "bool"),
         x |-> paddle_add(x, broadcast_zeros),
         y |-> paddle_add(y, broadcast_zeros)]

\* the zero-addition path: the three operands brought to one shape
where_broadcast(condition, x, y) ==
    LET zeros_like_x   == paddle_zeros_like(x)
        zeros_like_y   == paddle_zeros_like(y)
        zeros_like_c   == paddle_cast(paddle_zeros_like(condition), x.dtype)
        cast_cond      == paddle_cast(condition, x.dtype)
        zeros_xy       == paddle_add(zeros_like_x, zeros_like_y)
        broadcast_zeros == paddle_add(zeros_xy, zeros_like_c)
    IN  [condition |-> paddle_cast(paddle_add(cast_cond, broadcast_zeros), "bool"),
         x |-> paddle_add(x, broadcast_zeros),
         y |-> paddle_add(y, broadcast_zeros)]

\* paddle.add raises when its operands' shapes cannot be broadcast
where_broadcast_ok(condition, x, y) ==
    /\ BroadcastOK(x.shape, y.shape)
    /\ BroadcastOK(BroadcastShape(x.shape, y.shape), condition.shape)

where_broadcast_log ==
    << Op("zeros_like", "paddle", NoAttrs), Op("zeros_like", "paddle", NoAttrs),
       Op("zeros_like", "paddle", NoAttrs), Op("cast", "paddle", NoAttrs),
       Op("cast", "paddle", NoAttrs), Op("add", "paddle", NoAttrs),
       Op("add", "paddle", NoAttrs), Op("add", "paddle", NoAttrs),
       Op("add", "paddle", NoAttrs), Op("add", "paddle", NoAttrs),
       Op("cast", "paddle", NoAttrs) >>

\* the log up to the paddle.add that raised
where_broadcast_failed_log(x, y) ==
    SubSeq(where_broadcast_log, 1,
           IF BroadcastOK(x.shape, y.shape) THEN 7 ELSE 6)

\* the select of where dispatched to the in-place kernel _C_ops.where_, which
\* writes the select into the storage of x
where_select_inplace(m, condition, x, y, log) ==
    LET same == x.shape = y.shape /\ condition.shape = x.shape
        b    == IF same THEN [condition |-> condition, x |-> x, y |-> y]
                ELSE where_broadcast(condition, x, y)
        log2 == IF same THEN log ELSE log \o where_broadcast_log
    IN  IF ~same /\ ~where_broadcast_ok(condition, x, y)
        THEN Raise("NativeError", log \o where_broadcast_failed_log(x, y))
        ELSE IF in_dynamic_or_pir_mode(m)
        THEN Result("none",
                    log2 \o <<Op("where_", "_C_ops",
                                 [writes |-> "x",
                                  value |-> C_ops_where(b.condition, b.x, b.y)])>>,
                    PyTensor(C_ops_where(b.condition, b.x, b.y)))
        ELSE IF \/ ~check_variable_and_dtype(m, condition, {"bool"})
                \/ ~check_variable_and_dtype(m, x, WhereDtypes)
                \/ ~check_variable_and_dtype(m, y, WhereDtypes)
        THEN Raise("TypeError", log2)
        ELSE Result("none", log2 \o <<Op("where", "append_op", NoAttrs)>>,
                    PyTensor(C_ops_where(b.condition, b.x, b.y)))

\* the select of where, its operands being tensors
where_select(m, condition, x, y, log) ==
    LET same == x.shape = y.shape /\ condition.shape = x.shape
        b    == IF same THEN [condition |-> condition, x |-> x, y |-> y]
                ELSE where_broadcast(condition, x, y)
        log2 == IF same THEN log ELSE log \o where_broadcast_log
    IN  IF ~same /\ ~where_broadcast_ok(condition, x, y)
        THEN Raise("NativeError", log \o where_broadcast_failed_log(x, y))
        ELSE IF in_dynamic_or_pir_mode(m)
        THEN Result("none", log2 \o <<Op("where", "_C_ops", NoAttrs)>>,
                    PyTensor(C_ops_where(b.condition, b.x, b.y)))
        ELSE IF \/ ~check_variable_and_dtype(m, condition, {"bool"})
                \/ ~check_variable_and_dtype(m, x, WhereDtypes)
                \/ ~check_variable_and_dtype(m, y, WhereDtypes)
        THEN Raise("TypeError", log2)
        ELSE Result("none", log2 \o <<Op("where", "append_op", NoAttrs)>>,
                    PyTensor(C_ops_where(b.condition, b.x, b.y)))

\* where with the test of both operands missing made a test of either
where_nonzero_on_either_none(m, condition, x, y) ==
    LET x1  == where_scalar(x)
        y1  == where_scalar(y)
        log == where_scalar_log(x) \o where_scalar_log(y)
    IN  IF x1.kind = "None" \/ y1.kind = "None"
        THEN LET r == nonzero(m, condition, TRUE)
             IN  Result(r.err, log \o r.ops, r.out)
        ELSE where_select(m, condition, x1.t, y1.t, log)

\* where returning nonzero(condition) without as_tuple
where_nonzero_not_as_tuple(m, condition, x, y) ==
    LET x1  == where_scalar(x)
        y1  == where_scalar(y)
        log == where_scalar_log(x) \o where_scalar_log(y)
    IN  IF x1.kind = "None" /\ y1.kind = "None"
        THEN LET r == nonzero(m, condition, FALSE)
             IN  Result(r.err, log \o r.ops, r.out)
        ELSE IF x1.kind = "None" \/ y1.kind = "None"
        THEN Raise("ValueError", log)
        ELSE where_select(m, condition, x1.t, y1.t, log)

where(m, condition, x, y) ==
    LET x1  == where_scalar(x)
        y1  == where_scalar(y)
        log == where_scalar_log(x) \o where_scalar_log(y)
    IN  IF x1.kind = "None" /\ y1.kind = "None"
        THEN LET r == nonzero(m, condition, TRUE)
             IN  Result(r.err, log \o r.ops, r.out)
        ELSE IF x1.kind = "None" \/ y1.kind = "None"
        THEN Raise("ValueError", log)
        ELSE where_select(m, condition, x1.t, y1.t, log)

----------------------------------------------------------------------------
(* search.py: where_, the in-place variant of where.  An in-place operator  *)
(* is logged with the operand whose storage it wrote and what it wrote.     *)
(* The decorator inplace_apis_in_dygraph_only is outside search.py: the     *)
(* function is modelled as it is written, its own test of the mode being    *)
(* what keeps the in-place kernel to the eager mode.                        *)

\* the log entry of an in-place operator that wrote value into the storage
\* of the operand named target
InplaceOp(name, via, target, value) ==
    Op(name, via, [writes |-> target, value |-> value])

\* x.add_(y) raises unless the common shape of x and y is the shape of x
Tensor_add__ok(x, y) ==
    BroadcastOK(x.shape, y.shape) /\ BroadcastShape(x.shape, y.shape) = x.shape \o <<>>

\* the zero-addition path of where_, broadcast_x being paddle.add(x, ...)
\* as in where: x is not written and its shape is not tested
where__broadcast_not_inplace(condition, x, y) ==
    IF ~where_broadcast_ok(condition, x, y)
    THEN [ok |-> FALSE, log |-> where_broadcast_failed_log(x, y),
          condition |-> condition, x |-> x, y |-> y]
    ELSE LET b == where_broadcast(condition, x, y)
         IN  [ok |-> TRUE,
              log |-> SubSeq(where_broadcast_log, 1, 7)
                          \o <<Op("add", "paddle", NoAttrs),
                               Op("add", "paddle", NoAttrs),
                               Op("add", "paddle", NoAttrs),
                               Op("cast", "paddle", NoAttrs)>>,
              condition |-> b.condition, x |-> b.x, y |-> b.y]

\* the zero-addition path of where_: as that of where, but broadcast_x is
\* x.add_(broadcast_zeros), which writes x + 0 into the storage of x and is
\* x itself.  ok is FALSE when one of the additions raised; log ends with
\* the call that raised
where__broadcast(condition, x, y) ==
    IF ~where_broadcast_ok(condition, x, y)
    THEN [ok |-> FALSE, log |-> where_broadcast_failed_log(x, y),
          condition |-> condition, x |-> x, y |-> y]
    ELSE LET b               == where_broadcast(condition, x, y)
             broadcast_zeros == paddle_zeros_like(b.x)
         IN  IF ~Tensor_add__ok(x, broadcast_zeros)
             THEN [ok |-> FALSE,
                   log |-> SubSeq(where_broadcast_log, 1, 7)
                               \o <<Op("add_", "Tensor", NoAttrs)>>,
                   condition |-> condition, x |-> x, y |-> y]
             ELSE [ok |-> TRUE,
                   log |-> SubSeq(where_broadcast_log, 1, 7)
                               \o <<InplaceOp("add_", "Tensor", "x",
                                              paddle_add(x, broadcast_zeros)),
                                    Op("add", "paddle", NoAttrs),
                                    Op("add", "paddle", NoAttrs),
                                    Op("cast", "paddle", NoAttrs)>>,
                   condition |-> b.condition,
                   x |-> paddle_add(x, broadcast_zeros),
                   y |-> b.y]

\* the tensor x returned by an in-place operator: the operand itself
SameTensor(target, t) == [kind |-> "Tensor", t |-> t, is |-> target]

\* the dispatch of where_ without its test of the mode
where__dispatch_in_every_mode(m, condition, x, y, log) ==
    LET value == C_ops_where(condition, x, y)
    IN  Result("none", log \o <<InplaceOp("where_", "_C_ops", "x", value)>>,
               SameTensor("x", value))

\* if in_dynamic_mode(): return _C_ops.where_(broadcast_condition,
\* broadcast_x, broadcast_y); the kernel writes the select into the storage
\* of broadcast_x, which is x, and returns it.  In the other modes the
\* function ends without a return statement
where__dispatch(m, condition, x, y, log) ==
    IF in_dynamic_mode(m)
    THEN LET value == C_ops_where(condition, x, y)
         IN  Result("none", log \o <<InplaceOp("where_", "_C_ops", "x", value)>>,
                    SameTensor("x", value))
    ELSE Result("none", log, PyNone)

\* where_ treating scalars and None as where does
where__converts_like_where(m, condition, x, y) ==
    LET x1  == where_scalar(x)
        y1  == where_scalar(y)
        log == where_scalar_log(x) \o where_scalar_log(y)
    IN  IF x1.kind = "None" /\ y1.kind = "None"
        THEN LET r == nonzero(m, condition, TRUE)
             IN  Result(r.err, log \o r.ops, r.out)
        ELSE IF x1.kind = "None" \/ y1.kind = "None"
        THEN Raise("ValueError", log)
        ELSE IF x1.t.shape = y1.t.shape /\ condition.shape = x1.t.shape
        THEN where__dispatch(m, condition, x1.t, y1.t, log)
        ELSE LET b == where__broadcast(condition, x1.t, y1.t)
             IN  IF ~b.ok THEN Raise("NativeError", log \o b.log)
                 ELSE where__dispatch(m, b.condition, b.x, b.y, log \o b.log)

where_(m, condition, x, y) ==
    IF x.kind = "scalar" \/ y.kind = "scalar"
    THEN Raise("ValueError", <<>>)
    ELSE IF x.kind = "None" \/ y.kind = "None"
    THEN Raise("ValueError", <<>>)
    ELSE IF x.t.shape = y.t.shape /\ condition.shape = x.t.shape
    THEN where__dispatch(m, condition, x.t, y.t, <<>>)
    ELSE LET b == where__broadcast(condition, x.t, y.t)
         IN  IF ~b.ok THEN Raise("NativeError", b.log)
             ELSE where__dispatch(m, b.condition, b.x, b.y, b.log)

----------------------------------------------------------------------------
(* search.py: index_select, index_sample *)

IndexSelectDtypes ==
    {"uint16", "float16", "float32", "float64", "int32", "int64", "complex64",
     "complex128"}

IndexSampleDtypes ==
    {"uint16", "float16", "float32", "float64", "int32", "int64", "complex64",
     "complex128"}

IndexDtypes == {"int32", "int64"}

\* index_select without its axis argument: the kernel always given axis 0
index_select_ignores_axis(m, x, index, axis) ==
    LET via == IF in_dynamic_or_pir_mode(m) THEN "_C_ops" ELSE "append_op"
        log == <<Op("index_select", via, [dim |-> PyInt(0)])>>
    IN  IF ~in_dynamic_or_pir_mode(m)
           /\ (\/ ~check_variable_and_dtype(m, x, IndexSelectDtypes)
               \/ ~check_variable_and_dtype(m, index, IndexDtypes))
        THEN Raise("TypeError", <<>>)
        ELSE IF C_ops_index_select_ok(x, index, 0)
        THEN Result("none", log, PyTensor(C_ops_index_select(x, index, 0)))
        ELSE Raise("NativeError", log)

index_select(m, x, index, axis) ==
    LET via == IF in_dynamic_or_pir_mode(m) THEN "_C_ops" ELSE "append_op"
        log == <<Op("index_select", via, [dim |-> PyInt(axis)])>>
    IN  IF ~in_dynamic_or_pir_mode(m)
           /\ (\/ ~check_variable_and_dtype(m, x, IndexSelectDtypes)
               \/ ~check_variable_and_dtype(m, index, IndexDtypes))
        THEN Raise("TypeError", <<>>)
        ELSE IF C_ops_index_select_ok(x, index, axis)
        THEN Result("none", log, PyTensor(C_ops_index_select(x, index, axis)))
        ELSE Raise("NativeError", log)

\* index_sample giving the kernel the first row of index for every row
index_sample_shares_first_row(m, x, index) ==
    LET via   == IF in_dynamic_or_pir_mode(m) THEN "_C_ops" ELSE "append_op"
        log   == <<Op("index_sample", via, NoAttrs)>>
        first == Tensor(index.shape, index.dtype,
                        [i \in 1..Numel(index) |->
                            index.data[((i - 1) % LastDim(index)) + 1]])
    IN  IF ~in_dynamic_or_pir_mode(m)
           /\ (\/ ~check_variable_and_dtype(m, x, IndexSampleDtypes)
               \/ ~check_variable_and_dtype(m, index, IndexDtypes))
        THEN Raise("TypeError", <<>>)
        ELSE IF C_ops_index_sample_ok(x, index)
        THEN Result("none", log, PyTensor(C_ops_index_sample(x, first)))
        ELSE Raise("NativeError", log)

index_sample(m, x, index) ==
    LET via == IF in_dynamic_or_pir_mode(m) THEN "_C_ops" ELSE "append_op"
        log == <<Op("index_sample", via, NoAttrs)>>
    IN  IF ~in_dynamic_or_pir_mode(m)
           /\ (\/ ~check_variable_and_dtype(m, x, IndexSampleDtypes)
               \/ ~check_variable_and_dtype(m, index, IndexDtypes))
        THEN Raise("TypeError", <<>>)
        ELSE IF C_ops_index_sample_ok(x, index)
        THEN Result("none", log, PyTensor(C_ops_index_sample(x, index)))
        ELSE Raise("NativeError", log)

----------------------------------------------------------------------------
(* search.py: argsort, sort *)

ArgsortDtypes ==
    {"uint16", "float16", "float32", "float64", "int16", "int32", "int64", "uint8"}

ArgsortAttrs(axis, descending, stable) ==
    [axis |-> PyInt(axis), descending |-> descending, stable |-> stable]

\* argsort without the stable argument: the kernel asked for an unstable sort
argsort_drops_stable(m, x, axis, descending, stable, tie) ==
    LET attrs == ArgsortAttrs(axis, descending, FALSE)
        value == PyTensor(C_ops_argsort_ids(x, axis, descending, FALSE, tie))
    IN  IF in_dynamic_or_pir_mode(m)
        THEN IF C_ops_argsort_ok(x, axis)
             THEN Result("none", <<Op("argsort", "_C_ops", attrs)>>, value)
             ELSE Raise("NativeError", <<Op("argsort", "_C_ops", attrs)>>)
        ELSE IF ~check_variable_and_dtype(m, x, ArgsortDtypes)
        THEN Raise("TypeError", <<>>)
        ELSE IF C_ops_argsort_ok(x, axis)
        THEN Result("none", <<Op("argsort", "append_op", attrs)>>, value)
        ELSE Raise("NativeError", <<Op("argsort", "append_op", attrs)>>)

argsort(m, x, axis, descending, stable, tie) ==
    LET attrs == ArgsortAttrs(axis, descending, stable)
        value == PyTensor(C_ops_argsort_ids(x, axis, descending, stable, tie))
    IN  IF in_dynamic_or_pir_mode(m)
        THEN IF C_ops_argsort_ok(x, axis)
             THEN Result("none", <<Op("argsort", "_C_ops", attrs)>>, value)
             ELSE Raise("NativeError", <<Op("argsort", "_C_ops", attrs)>>)
        ELSE IF ~check_variable_and_dtype(m, x, ArgsortDtypes)
        THEN Raise("TypeError", <<>>)
        ELSE IF C_ops_argsort_ok(x, axis)
        THEN Result("none", <<Op("argsort", "append_op", attrs)>>, value)
        ELSE Raise("NativeError", <<Op("argsort", "append_op", attrs)>>)

\* sort without the descending argument: the kernel asked for ascending order
sort_drops_descending(m, x, axis, descending, stable, tie) ==
    LET attrs == ArgsortAttrs(axis, FALSE, stable)
        value == PyTensor(C_ops_argsort_out(x, axis, FALSE, stable, tie))
        via   == IF in_dynamic_or_pir_mode(m) THEN "_C_ops" ELSE "append_op"
    IN  IF C_ops_argsort_ok(x, axis)
        THEN Result("none", <<Op("argsort", via, attrs)>>, value)
        ELSE Raise("NativeError", <<Op("argsort", via, attrs)>>)

\* sort unpacking the outputs of the kernel the wrong way round: the
\* indices returned as the values
sort_returns_indices(m, x, axis, descending, stable, tie) ==
    LET attrs == ArgsortAttrs(axis, descending, stable)
        value == PyTensor(C_ops_argsort_ids(x, axis, descending, stable, tie))
        via   == IF in_dynamic_or_pir_mode(m) THEN "_C_ops" ELSE "append_op"
    IN  IF C_ops_argsort_ok(x, axis)
        THEN Result("none", <<Op("argsort", via, attrs)>>, value)
        ELSE Raise("NativeError", <<Op("argsort", via, attrs)>>)

sort(m, x, axis, descending, stable, tie) ==
    LET attrs == ArgsortAttrs(axis, descending, stable)
        value == PyTensor(C_ops_argsort_out(x, axis, descending, stable, tie))
        via   == IF in_dynamic_or_pir_mode(m) THEN "_C_ops" ELSE "append_op"
    IN  IF C_ops_argsort_ok(x, axis)
        THEN Result("none", <<Op("argsort", via, attrs)>>, value)
        ELSE Raise("NativeError", <<Op("argsort", via, attrs)>>)

----------------------------------------------------------------------------
(* search.py: mode *)

\* mode without its axis argument: the kernel always given the last axis
mode_ignores_axis(m, x, axis, keepdim) ==
    LET attrs == [axis |-> PyInt(-1), keepdim |-> keepdim]
        via   == IF in_dynamic_or_pir_mode(m) THEN "_C_ops" ELSE "append_op"
    IN  IF C_ops_mode_ok(x, -1)
        THEN Result("none", <<Op("mode", via, attrs)>>,
                    [kind |-> "tuple",
                     items |-> <<C_ops_mode_out(x, -1, keepdim),
                                 C_ops_mode_indices(x, -1, keepdim)>>])
        ELSE Raise("NativeError", <<Op("mode", via, attrs)>>)

paddle_mode(m, x, axis, keepdim) ==
    LET attrs == [axis |-> PyInt(axis), keepdim |-> keepdim]
        via   == IF in_dynamic_or_pir_mode(m) THEN "_C_ops" ELSE "append_op"
    IN  IF C_ops_mode_ok(x, axis)
        THEN Result("none", <<Op("mode", via, attrs)>>,
                    [kind |-> "tuple",
                     items |-> <<C_ops_mode_out(x, axis, keepdim),
                                 C_ops_mode_indices(x, axis, keepdim)>>])
        ELSE Raise("NativeError", <<Op("mode", via, attrs)>>)

----------------------------------------------------------------------------
(* search.py: masked_select *)

MaskedSelectDtypes == {"float16", "float32", "float64", "int32", "int64", "uint16"}

\* masked_select passing its arguments to the kernel in the other order
masked_select_swaps_arguments(m, x, mask) ==
    LET via == IF in_dynamic_or_pir_mode(m) THEN "_C_ops" ELSE "append_op"
        log == <<Op("masked_select", via, NoAttrs)>>
    IN  IF (in_pir_mode(m) \/ ~in_dynamic_or_pir_mode(m))
           /\ (\/ ~check_variable_and_dtype(m, x, MaskedSelectDtypes)
               \/ ~check_variable_and_dtype(m, mask, {"bool"}))
        THEN Raise("TypeError", <<>>)
        ELSE IF C_ops_masked_select_ok(mask, x)
        THEN Result("none", log, PyTensor(C_ops_masked_select(mask, x)))
        ELSE Raise("NativeError", log)

masked_select(m, x, mask) ==
    LET via == IF in_dynamic_or_pir_mode(m) THEN "_C_ops" ELSE "append_op"
        log == <<Op("masked_select", via, NoAttrs)>>
    IN  IF (in_pir_mode(m) \/ ~in_dynamic_or_pir_mode(m))
           /\ (\/ ~check_variable_and_dtype(m, x, MaskedSelectDtypes)
               \/ ~check_variable_and_dtype(m, mask, {"bool"}))
        THEN Raise("TypeError", <<>>)
        ELSE IF C_ops_masked_select_ok(x, mask)
        THEN Result("none", log, PyTensor(C_ops_masked_select(x, mask)))
        ELSE Raise("NativeError", log)

----------------------------------------------------------------------------
(* search.py: topk, kthvalue *)

\* what a wrapper returns for the two outputs of a kernel
PyTuple(a, b) == [kind |-> "tuple", items |-> <<a, b>>]

\* the number a k argument stands for
KValue(k) == IF k.kind = "Tensor" THEN k.t.data[1] ELSE k.val

\* the attrs of the graph node top_k_v2: k unless it is a Variable (then an
\* input of the node), largest, sorted, and axis unless it is None
TopkAttrs(k, axis, largest, sorted) ==
    IF k.kind = "Tensor"
    THEN IF axis.kind = "None"
         THEN [largest |-> largest, sorted |-> sorted]
         ELSE [largest |-> largest, sorted |-> sorted, axis |-> axis]
    ELSE IF axis.kind = "None"
         THEN [k |-> k, largest |-> largest, sorted |-> sorted]
         ELSE [k |-> k, largest |-> largest, sorted |-> sorted, axis |-> axis]

\* topk without its axis argument: the kernel always given the last axis
topk_ignores_axis(m, x, k, axis, largest, sorted, order) ==
    LET ax  == DefaultAxis
        log == IF in_dynamic_or_pir_mode(m)
               THEN <<Op("topk", "_C_ops",
                         [k |-> k, axis |-> PyInt(ax), largest |-> largest,
                          sorted |-> sorted])>>
               ELSE <<Op("top_k_v2", "append_op",
                         TopkAttrs(k, PyNone, largest, sorted))>>
    IN  IF C_ops_k_ok(x, KValue(k), ax)
        THEN Result("none", log,
                    PyTuple(C_ops_topk_out(x, KValue(k), ax, largest, sorted, order),
                            C_ops_topk_indices(x, KValue(k), ax, largest, sorted, order)))
        ELSE Raise("NativeError", log)

\* topk with the sense of largest inverted
topk_negates_largest(m, x, k, axis, largest, sorted, order) ==
    LET ax  == IF axis.kind = "None" THEN DefaultAxis ELSE axis.val
        log == IF in_dynamic_or_pir_mode(m)
               THEN <<Op("topk", "_C_ops",
                         [k |-> k, axis |-> PyInt(ax), largest |-> ~largest,
                          sorted |-> sorted])>>
               ELSE <<Op("top_k_v2", "append_op",
                         TopkAttrs(k, axis, ~largest, sorted))>>
    IN  IF C_ops_k_ok(x, KValue(k), ax)
        THEN Result("none", log,
                    PyTuple(C_ops_topk_out(x, KValue(k), ax, ~largest, sorted, order),
                            C_ops_topk_indices(x, KValue(k), ax, ~largest, sorted, order)))
        ELSE Raise("NativeError", log)

\* topk cutting k down to the length of the axis before the kernel sees it
topk_clamps_k(m, x, k, axis, largest, sorted, order) ==
    LET ax  == IF axis.kind = "None" THEN DefaultAxis ELSE axis.val
        kk  == Min2(KValue(k), x.shape[NormAxis(ax, Rank(x)) + 1])
        log == IF in_dynamic_or_pir_mode(m)
               THEN <<Op("topk", "_C_ops",
                         [k |-> PyInt(kk), axis |-> PyInt(ax), largest |-> largest,
                          sorted |-> sorted])>>
               ELSE <<Op("top_k_v2", "append_op",
                         TopkAttrs(PyInt(kk), axis, largest, sorted))>>
    IN  IF C_ops_k_ok(x, kk, ax)
        THEN Result("none", log,
                    PyTuple(C_ops_topk_out(x, kk, ax, largest, sorted, order),
                            C_ops_topk_indices(x, kk, ax, largest, sorted, order)))
        ELSE Raise("NativeError", log)

\* topk with axis = 0 where axis is None
topk_none_is_first_axis(m, x, k, axis, largest, sorted, order) ==
    LET ax  == IF axis.kind = "None" THEN 0 ELSE axis.val
        log == IF in_dynamic_or_pir_mode(m)
               THEN <<Op("topk", "_C_ops",
                         [k |-> k, axis |-> PyInt(ax), largest |-> largest,
                          sorted |-> sorted])>>
               ELSE <<Op("top_k_v2", "append_op",
                         TopkAttrs(k, axis, largest, sorted))>>
    IN  IF C_ops_k_ok(x, KValue(k), ax)
        THEN Result("none", log,
                    PyTuple(C_ops_topk_out(x, KValue(k), ax, largest, sorted, order),
                            C_ops_topk_indices(x, KValue(k), ax, largest, sorted, order)))
        ELSE Raise("NativeError", log)

topk(m, x, k, axis, largest, sorted, order) ==
    LET ax  == IF axis.kind = "None" THEN DefaultAxis ELSE axis.val
        log == IF in_dynamic_or_pir_mode(m)
               THEN <<Op("topk", "_C_ops",
                         [k |-> k, axis |-> PyInt(ax), largest |-> largest,
                          sorted |-> sorted])>>
               ELSE <<Op("top_k_v2", "append_op",
                         TopkAttrs(k, axis, largest, sorted))>>
    IN  IF C_ops_k_ok(x, KValue(k), ax)
        THEN Result("none", log,
                    PyTuple(C_ops_topk_out(x, KValue(k), ax, largest, sorted, order),
                            C_ops_topk_indices(x, KValue(k), ax, largest, sorted, order)))
        ELSE Raise("NativeError", log)

\* the attrs of the graph node kthvalue: k, and axis unless it is None
KthvalueAttrs(k, axis) ==
    IF axis.kind = "None" THEN [k |-> k] ELSE [k |-> k, axis |-> axis]

\* kthvalue without its axis argument: the kernel always given the last axis
kthvalue_ignores_axis(m, x, k, axis, keepdim) ==
    LET ax   == DefaultAxis
        keep == IF in_dynamic_or_pir_mode(m) THEN keepdim ELSE DefaultKeepdim
        log  == IF in_dynamic_or_pir_mode(m)
                THEN <<Op("kthvalue", "_C_ops",
                          [k |-> k, axis |-> PyInt(ax), keepdim |-> keepdim])>>
                ELSE <<Op("kthvalue", "append_op", KthvalueAttrs(k, PyNone))>>
    IN  IF C_ops_k_ok(x, KValue(k), ax)
        THEN Result("none", log,
                    PyTuple(C_ops_kthvalue_out(x, KValue(k), ax, keep),
                            C_ops_kthvalue_indices(x, KValue(k), ax, keep)))
        ELSE Raise("NativeError", log)

kthvalue(m, x, k, axis, keepdim) ==
    LET ax   == IF axis.kind = "None" THEN DefaultAxis ELSE axis.val
        keep == IF in_dynamic_or_pir_mode(m) THEN keepdim ELSE DefaultKeepdim
        log  == IF in_dynamic_or_pir_mode(m)
                THEN <<Op("kthvalue", "_C_ops",
                          [k |-> k, axis |-> PyInt(ax), keepdim |-> keepdim])>>
                ELSE <<Op("kthvalue", "append_op", KthvalueAttrs(k, axis))>>
    IN  IF C_ops_k_ok(x, KValue(k), ax)
        THEN Result("none", log,
                    PyTuple(C_ops_kthvalue_out(x, KValue(k), ax, keep),
                            C_ops_kthvalue_indices(x, KValue(k), ax, keep)))
        ELSE Raise("NativeError", log)

----------------------------------------------------------------------------
(* search.py: beam_search_softmax.  beam_width and beam_group_num are the   *)
(* integers the two [1, 1] tensors hold; the other fourteen tensors are     *)
(* passed on as they are and are left out.                                  *)

\* the greatest beam_width the first assertion lets through
MaxBeamWidth == 16

\* a % b of Python, for b # 0: the remainder has the sign of b
PyMod(a, b) == IF b > 0 THEN a % b ELSE -((-a) % (-b))

BeamAttrs(beam_width, beam_group_num, fuse_softmax, early_stop) ==
    [beam_width |-> beam_width, beam_group_num |-> beam_group_num,
     fuse_softmax |-> fuse_softmax, early_stop |-> early_stop]

\* what the wrapper returns for the outputs next_tokens and parent_ids,
\* whose values this model does not compute
BeamOutputs == PyOther("tuple")

beam_search_softmax(m, beam_width, beam_group_num, fuse_softmax, early_stop) ==
    LET attrs == BeamAttrs(beam_width, beam_group_num, fuse_softmax, early_stop)
    IN  IF ~(beam_width <= MaxBeamWidth)
        THEN Raise("AssertionError", <<>>)
        ELSE IF ~(beam_group_num <= beam_width)
        THEN Raise("AssertionError", <<>>)
        ELSE IF beam_group_num = 0
        THEN Raise("ZeroDivisionError", <<>>)
        ELSE IF ~(PyMod(beam_width, beam_group_num) = 0)
        THEN Raise("AssertionError", <<>>)
        ELSE IF in_dynamic_mode(m)
        THEN Result("none", <<Op("beam_search_softmax", "_C_ops", attrs)>>,
                    BeamOutputs)
        ELSE Result("none", <<Op("beam_search_softmax", "append_op", attrs)>>,
                    BeamOutputs)

----------------------------------------------------------------------------
(* search.py: argmax, argmin *)

ArgDtypes ==
    {"uint16", "float16", "float32", "float64", "int16", "int32", "int64", "uint8"}

\* the isinstance test with the tensor types forgotten
is_int_only(axis) == axis.kind = "int"

\* isinstance(axis, (int, Variable, paddle.pir.Value))
is_int_or_tensor(axis) == axis.kind \in {"int", "Tensor"}

\* the number an axis argument stands for
AxisValue(axis) == IF axis.kind = "Tensor" THEN axis.t.data[1] ELSE axis.val

\* check_dtype(var_dtype, 'dtype', ['int32', 'int64'], op): TRUE when it returns
check_dtype(m, dtype, expected) == m = "dynamic" \/ dtype \in expected

\* the part argmax and argmin share; isMax tells them apart, name is the type
\* of the graph node
arg_reduce(m, x, axis, keepdim, dtype, isMax, c_op, node) ==
    IF axis.kind # "None" /\ ~is_int_or_tensor(axis)
    THEN Raise("TypeError", <<>>)
    ELSE IF dtype = "None"
    THEN Raise("ValueError", <<>>)
    ELSE
    LET flatten == axis.kind = "None"
        axis1   == IF axis.kind = "None" THEN PyInt(0) ELSE axis
        attrs   == [axis |-> axis1, keepdim |-> keepdim, flatten |-> flatten,
                    dtype |-> dtype]
        ok      == C_ops_arg_ok(x, AxisValue(axis1), flatten, dtype)
        value   == PyTensor(C_ops_arg(x, AxisValue(axis1), keepdim, flatten,
                                      dtype, isMax))
    IN  IF in_dynamic_mode(m)
        THEN IF ok THEN Result("none", <<Op(c_op, "_C_ops", attrs)>>, value)
             ELSE Raise("NativeError", <<Op(c_op, "_C_ops", attrs)>>)
        ELSE IF in_pir_mode(m)
        THEN IF ~check_dtype(m, dtype, {"int32", "int64"})
             THEN Raise("TypeError", <<>>)
             ELSE IF ok THEN Result("none", <<Op(c_op, "_C_ops", attrs)>>, value)
             ELSE Raise("NativeError", <<Op(c_op, "_C_ops", attrs)>>)
        ELSE IF ~check_variable_and_dtype(m, x, ArgDtypes)
        THEN Raise("TypeError", <<>>)
        ELSE IF ~check_dtype(m, dtype, {"int32", "int64"})
        THEN Raise("TypeError", <<>>)
        ELSE IF ok THEN Result("none", <<Op(node, "append_op", attrs)>>, value)
        ELSE Raise("NativeError", <<Op(node, "append_op", attrs)>>)

\* argmax dispatching the kernel of argmin
argmax_dispatches_argmin(m, x, axis, keepdim, dtype) ==
    arg_reduce(m, x, axis, keepdim, dtype, FALSE, "argmax", "arg_max")

argmax(m, x, axis, keepdim, dtype) ==
    arg_reduce(m, x, axis, keepdim, dtype, TRUE, "argmax", "arg_max")

\* argmin with a dtype of None read as the default, int64
argmin_defaults_dtype(m, x, axis, keepdim, dtype) ==
    arg_reduce(m, x, axis, keepdim, IF dtype = "None" THEN "int64" ELSE dtype,
               FALSE, "argmin", "arg_min")

\* argmin forwarding axis 0 without flatten when the axis is None
argmin_never_flattens(m, x, axis, keepdim, dtype) ==
    arg_reduce(m, x, IF axis.kind = "None" THEN PyInt(0) ELSE axis, keepdim,
               dtype, FALSE, "argmin", "arg_min")

argmin(m, x, axis, keepdim, dtype) ==
    arg_reduce(m, x, axis, keepdim, dtype, FALSE, "argmin", "arg_min")

----------------------------------------------------------------------------
(* search.py: searchsorted, bucketize *)

SearchsortedDtypes ==
    {"uint16", "float16", "float32", "float64", "int32", "int64"}

BucketizeDtypes == {"float32", "float64", "int32", "int64"}

\* searchsorted with the sense of right inverted
searchsorted_negates_right(m, sorted_sequence, values, out_int32, right) ==
    LET attrs == [out_int32 |-> out_int32, right |-> ~right]
        ok    == C_ops_searchsorted_ok(sorted_sequence, values)
        value == PyTensor(C_ops_searchsorted(sorted_sequence, values,
                                             out_int32, ~right))
    IN  IF in_dynamic_or_pir_mode(m)
        THEN IF ok THEN Result("none", <<Op("searchsorted", "_C_ops", attrs)>>, value)
             ELSE Raise("NativeError", <<Op("searchsorted", "_C_ops", attrs)>>)
        ELSE IF \/ ~check_variable_and_dtype(m, sorted_sequence, SearchsortedDtypes)
                \/ ~check_variable_and_dtype(m, values, SearchsortedDtypes)
        THEN Raise("TypeError", <<>>)
        ELSE IF ok
        THEN Result("none", <<Op("searchsorted", "append_op", attrs)>>, value)
        ELSE Raise("NativeError", <<Op("searchsorted", "append_op", attrs)>>)

searchsorted(m, sorted_sequence, values, out_int32, right) ==
    LET attrs == [out_int32 |-> out_int32, right |-> right]
        ok    == C_ops_searchsorted_ok(sorted_sequence, values)
        value == PyTensor(C_ops_searchsorted(sorted_sequence, values,
                                             out_int32, right))
    IN  IF in_dynamic_or_pir_mode(m)
        THEN IF ok THEN Result("none", <<Op("searchsorted", "_C_ops", attrs)>>, value)
             ELSE Raise("NativeError", <<Op("searchsorted", "_C_ops", attrs)>>)
        ELSE IF \/ ~check_variable_and_dtype(m, sorted_sequence, SearchsortedDtypes)
                \/ ~check_variable_and_dtype(m, values, SearchsortedDtypes)
        THEN Raise("TypeError", <<>>)
        ELSE IF ok
        THEN Result("none", <<Op("searchsorted", "append_op", attrs)>>, value)
        ELSE Raise("NativeError", <<Op("searchsorted", "append_op", attrs)>>)

\* bucketize passing its arguments to searchsorted in its own order
bucketize_arguments_not_swapped(m, x, sorted_sequence, out_int32, right) ==
    IF ~check_variable_and_dtype(m, sorted_sequence, BucketizeDtypes)
    THEN Raise("TypeError", <<>>)
    ELSE IF Rank(sorted_sequence) # 1
    THEN Raise("ValueError", <<>>)
    ELSE searchsorted(m, x, sorted_sequence, out_int32, right)

bucketize(m, x, sorted_sequence, out_int32, right) ==
    IF ~check_variable_and_dtype(m, sorted_sequence, BucketizeDtypes)
    THEN Raise("TypeError", <<>>)
    ELSE IF Rank(sorted_sequence) # 1
    THEN Raise("ValueError", <<>>)
    ELSE searchsorted(m, sorted_sequence, x, out_int32, right)

----------------------------------------------------------------------------
(* The inputs of the calls *)

\* the boolean tensors
BoolTensors == UNION {TensorsOf(s, "bool", {0, 1}) : s \in Shapes}

\* the numeric tensors
NumTensors(dtype) == UNION {TensorsOf(s, dtype, 0..MaxVal) : s \in Shapes}

\* the first value of the x operands and of the y operands of where; the
\* values of an operand are distinct, and no value is in both operands
XStart == 10
YStart == 20

\* the tensors of the docstrings of argmax and argmin, and [5, 5, 3]
DocMatrix ==
    Tensor(<<3, 4>>, "int64", <<5, 8, 9, 5, 0, 0, 1, 7, 6, 9, 2, 4>>)

DocTie == Tensor(<<3>>, "int64", <<5, 5, 3>>)

ArgTensors == NumTensors("int64") \cup {DocMatrix, DocTie}

\* the axis arguments: None, every integer of [-rank, rank), a tensor
\* holding 0, a float and a str
AxisArgs(x) ==
    {PyNone, PyTensor(Tensor(<<>>, "int64", <<0>>)), PyOther("float"),
     PyOther("str")}
        \cup {PyInt(a) : a \in (-Len(AxisShape(x.shape)))..(Len(AxisShape(x.shape)) - 1)}

\* the dtype arguments: None, the two index types and a type that is none
DtypeArgs == {"None", "int32", "int64", "float32"}

IsSorted(d) == \A i \in 1..(Len(d) - 1) : d[i] <= d[i + 1]

\* the 1-D sequences, sorted as searchsorted and bucketize require
SortedVectors(dtype) ==
    UNION {{t \in TensorsOf(s, dtype, 0..MaxVal) : IsSorted(t.data)} :
               s \in ShapesOfRank(1, MaxNumel)}

\* the sequences bucketize is given: the sorted 1-D sequences and, for every
\* other shape, a sequence of equal elements; of a type bucketize takes and
\* of one only searchsorted takes
BucketizeSequences ==
    UNION {SortedVectors(dtype)
               \cup {paddle_full(s, 0, dtype) : s \in Shapes \ ShapesOfRank(1, MaxNumel)} :
               dtype \in {"int64", "float16"}}

\* the tensors searched for: of every shape, holding start, start+1, ...
\* within 0..MaxVal+1, which is past every element of a sequence
SearchValues ==
    {Tensor(s, "int64", [i \in 1..Prod(s) |-> (start + i - 1) % (MaxVal + 2)]) :
         s \in Shapes, start \in 0..(MaxVal + 1)}

\* the sequence and the values of the docstring of bucketize
DocSequence == Tensor(<<4>>, "int32", <<2, 4, 8, 16>>)

DocValues == Tensor(<<2, 4>>, "int32", <<0, 8, 4, 16, -1, 2, 8, 4>>)

\* the tensors sorted: every numeric tensor of rank 1 or 2
SortTensors == {t \in NumTensors("int64") : Rank(t) >= 1}

\* the axes of a tensor: [-rank, rank)
Axes(x) == (-Rank(x))..(Rank(x) - 1)

\* the length of the docstring's tensor [1, 0] * 40
DocRepeatLen == 80

\* x = paddle.to_tensor([1, 0]*40, dtype='float32')
DocRepeat == Tensor(<<DocRepeatLen>>, "float32", [i \in 1..DocRepeatLen |-> i % 2])

\* data_1 = paddle.to_tensor([1, 4, 5, 7])
DocTopkVector == Tensor(<<4>>, "int64", <<1, 4, 5, 7>>)

\* data_2 = paddle.to_tensor([[1, 4, 5, 7], [2, 6, 2, 5]])
DocTopkMatrix == Tensor(<<2, 4>>, "int64", <<1, 4, 5, 7, 2, 6, 2, 5>>)

\* the tensors topk and kthvalue are given
TopkTensors == SortTensors \cup {DocTopkVector, DocTopkMatrix}

\* the axis arguments of topk and kthvalue: None and every integer of
\* [-rank, rank)
AxisOrNone(x) == {PyNone} \cup {PyInt(a) : a \in Axes(x)}

\* the length of the axis of x an axis argument selects
AxisLen(x, axis) ==
    x.shape[NormAxis(IF axis.kind = "None" THEN DefaultAxis ELSE axis.val,
                     Rank(x)) + 1]

\* the k arguments for an axis of length n: every integer of 1..n+1, and a
\* scalar tensor holding n or n+1
KArgs(n) ==
    {PyInt(j) : j \in 1..(n + 1)}
        \cup {PyTensor(Tensor(<<>>, "int32", <<j>>)) : j \in {n, n + 1}}

\* the orders in which the build may return the k outputs of topk
TopkOrders(n, k, sorted) ==
    IF sorted \/ KValue(k) > n THEN {Identity(Min2(KValue(k), n))}
    ELSE Perms(KValue(k))

\* the sequences searchsorted is given: every tensor of rank 1 or 2 whose
\* rows are non-decreasing
SearchSequences ==
    {t \in SortTensors :
        \A i \in 1..Numel(t) :
            SliceStart(t, Rank(t), i) = i =>
                IsSorted(AxisSlice(t, Rank(t), Unravel(i - 1, t.shape)))}

\* the sequences, the values and the 1-D sequence of the docstring of
\* searchsorted
DocSearchSequence ==
    Tensor(<<2, 6>>, "int32", <<1, 3, 5, 7, 9, 11, 2, 4, 6, 8, 10, 12>>)

DocSearchValues == Tensor(<<2, 4>>, "int32", <<3, 6, 9, 10, 3, 6, 9, 10>>)

DocSearchVector == Tensor(<<7>>, "int32", <<1, 3, 5, 7, 9, 11, 13>>)

\* x1 and x2 of the docstring of nonzero
DocNonzeroMatrix ==
    Tensor(<<3, 3>>, "float32", <<1, 0, 0, 0, 2, 0, 0, 0, 3>>)

DocNonzeroVector == Tensor(<<4>>, "float32", <<0, 1, 0, 3>>)

\* tensor = paddle.to_tensor([[[1,2,2],[2,3,3]],[[0,5,5],[9,9,0]]])
DocModeTensor ==
    Tensor(<<2, 2, 3>>, "float32", <<1, 2, 2, 2, 3, 3, 0, 5, 5, 9, 9, 0>>)

\* the x operands of masked_select: of every shape, holding distinct
\* values, and one of a dtype masked_select does not take
MaskedOperands ==
    {Arange(s, "int64", XStart + 1) : s \in Shapes}
        \cup {Arange(<<2>>, "int16", XStart + 1)}

\* x and mask of the docstring of masked_select
DocMaskedX ==
    Tensor(<<3, 4>>, "float32", <<1, 2, 3, 4, 5, 6, 7, 8, 9, 10, 11, 12>>)

DocMask == Tensor(<<3, 4>>, "bool", <<1, 0, 0, 0, 1, 1, 0, 0, 1, 0, 0, 0>>)

\* the x operands of index_select: of every shape of rank 1 or 2, holding
\* distinct values, and one of a dtype the static check does not take
IndexSelectOperands ==
    {Arange(s, "int64", XStart + 1) : s \in Shapes \ {<<>>}}
        \cup {Arange(<<2>>, "int16", XStart + 1)}

\* the index operands of index_select: the vectors of at most MaxDim values
\* from -1 to MaxDim, of which -1 and MaxDim are positions of no axis; a
\* vector of a dtype the static check does not take, and a matrix
IndexVectors ==
    UNION {TensorsOf(<<n>>, "int64", -1..MaxDim) : n \in 1..MaxDim}
        \cup {Tensor(<<1>>, "float16", <<0>>), Tensor(<<1, 1>>, "int64", <<0>>)}

\* x and index of the docstring of index_select
DocIndexSelectX ==
    Tensor(<<3, 4>>, "float32", <<1, 2, 3, 4, 5, 6, 7, 8, 9, 10, 11, 12>>)

DocIndexSelectIndex == Tensor(<<3>>, "int32", <<0, 1, 1>>)

\* the x operands of index_sample: the matrices holding distinct values
IndexSampleOperands ==
    {Arange(s, "int64", XStart + 1) : s \in ShapesOfRank(2, MaxNumel)}

\* the index operands of index_sample: the matrices of values from -1 to
\* MaxDim
IndexMatrices ==
    UNION {TensorsOf(s, "int64", -1..MaxDim) : s \in ShapesOfRank(2, MaxNumel)}

\* x, index, target and top_index of the docstring of index_sample
DocIndexSampleX ==
    Tensor(<<3, 4>>, "float32", <<1, 2, 3, 4, 5, 6, 7, 8, 9, 10, 11, 12>>)

DocIndexSampleIndex == Tensor(<<3, 3>>, "int32", <<0, 1, 2, 1, 2, 3, 0, 0, 0>>)

DocIndexSampleTarget ==
    Tensor(<<3, 4>>, "int32",
           <<100, 200, 300, 400, 500, 600, 700, 800, 900, 1000, 1100, 1200>>)

DocIndexSampleTopIndex == Tensor(<<3, 2>>, "int64", <<3, 2, 3, 2, 3, 2>>)

\* the integers beam_width and beam_group_num are given: from -2 to two past
\* the greatest beam_width
BeamInts == (-2)..(MaxBeamWidth + 2)

WhereOperands(start) ==
    {PyNone, PyScalar(start)}
        \cup {PyTensor(Arange(s, "int64", start + 1)) : s \in Shapes}

----------------------------------------------------------------------------
Init ==
    /\ mode \in Modes
    /\ api = "none"
    /\ args = [x |-> PyNone]
    /\ ops = <<>>
    /\ err = "none"
    /\ out = NoValue
    /\ mem = [x |-> PyNone]

\* no wrapper has been called yet
Idle == api = "none"

\* the storage store of the operands once the operators of log have run:
\* an in-place operator has written its value into its target, the others
\* have written to no operand
RECURSIVE Stored(_, _)
Stored(store, log) ==
    IF log = <<>> THEN store
    ELSE LET e == Head(log)
         IN  Stored(IF "writes" \in DOMAIN e.attrs
                    THEN [store EXCEPT ![e.attrs.writes] = PyTensor(e.attrs.value)]
                    ELSE store,
                    Tail(log))

\* a call of a wrapper: the state records the call and what came of it; a
\* holds the operands as they were passed
Called(name, a, result) ==
    \E r \in {result} :
        /\ api' = name
        /\ args' = a
        /\ ops' = r.ops
        /\ err' = r.err
        /\ out' = r.out
        /\ mem' = Stored(a, r.ops)
        /\ UNCHANGED mode

CallWhere ==
    /\ Idle
    /\ \E c \in BoolTensors, x \in WhereOperands(XStart), y \in WhereOperands(YStart) :
           Called("where", [condition |-> c, x |-> x, y |-> y], where(mode, c, x, y))

CallNonzero ==
    /\ Idle
    /\ \E x \in BoolTensors \cup NumTensors("int64")
                    \cup {DocNonzeroMatrix, DocNonzeroVector},
          as_tuple \in BOOLEAN :
           Called("nonzero", [x |-> x, as_tuple |-> as_tuple],
                  nonzero(mode, x, as_tuple))

CallArgmax ==
    /\ Idle
    /\ \E x \in ArgTensors, keepdim \in BOOLEAN, dtype \in DtypeArgs :
         \E axis \in AxisArgs(x) :
           Called("argmax",
                  [x |-> x, axis |-> axis, keepdim |-> keepdim, dtype |-> dtype],
                  argmax(mode, x, axis, keepdim, dtype))

CallArgmin ==
    /\ Idle
    /\ \E x \in ArgTensors, keepdim \in BOOLEAN, dtype \in DtypeArgs :
         \E axis \in AxisArgs(x) :
           Called("argmin",
                  [x |-> x, axis |-> axis, keepdim |-> keepdim, dtype |-> dtype],
                  argmin(mode, x, axis, keepdim, dtype))

CallBucketize ==
    /\ Idle
    /\ \E x \in SearchValues \cup {DocValues},
          sorted_sequence \in BucketizeSequences \cup {DocSequence},
          out_int32 \in BOOLEAN, right \in BOOLEAN :
           Called("bucketize",
                  [x |-> x, sorted_sequence |-> sorted_sequence,
                   out_int32 |-> out_int32, right |-> right],
                  bucketize(mode, x, sorted_sequence, out_int32, right))

SortArgs(x, axis, descending, stable) ==
    [x |-> x, axis |-> PyInt(axis), descending |-> descending, stable |-> stable]

CallArgsort ==
    /\ Idle
    /\ \E x \in SortTensors, descending \in BOOLEAN, stable \in BOOLEAN :
         \E axis \in Axes(x) :
          \E tie \in Perms(x.shape[NormAxis(axis, Rank(x)) + 1]) :
           Called("argsort", SortArgs(x, axis, descending, stable),
                  argsort(mode, x, axis, descending, stable, tie))

\* the stable call of the docstring of argsort, in both directions
CallArgsortDocExample ==
    /\ Idle
    /\ \E axis \in Axes(DocRepeat), descending \in BOOLEAN :
           Called("argsort", SortArgs(DocRepeat, axis, descending, TRUE),
                  argsort(mode, DocRepeat, axis, descending, TRUE,
                          Identity(DocRepeatLen)))

CallSort ==
    /\ Idle
    /\ \E x \in SortTensors, descending \in BOOLEAN, stable \in BOOLEAN :
         \E axis \in Axes(x) :
          \E tie \in Perms(x.shape[NormAxis(axis, Rank(x)) + 1]) :
           Called("sort", SortArgs(x, axis, descending, stable),
                  sort(mode, x, axis, descending, stable, tie))

CallTopk ==
    /\ Idle
    /\ \E x \in TopkTensors, largest \in BOOLEAN, sorted \in BOOLEAN :
         \E axis \in AxisOrNone(x) :
          \E k \in KArgs(AxisLen(x, axis)) :
           \E order \in TopkOrders(AxisLen(x, axis), k, sorted) :
            Called("topk",
                   [x |-> x, k |-> k, axis |-> axis, largest |-> largest,
                    sorted |-> sorted],
                   topk(mode, x, k, axis, largest, sorted, order))

CallKthvalue ==
    /\ Idle
    /\ \E x \in TopkTensors, keepdim \in BOOLEAN :
         \E axis \in AxisOrNone(x) :
          \E k \in 1..(AxisLen(x, axis) + 1) :
            Called("kthvalue",
                   [x |-> x, k |-> PyInt(k), axis |-> axis, keepdim |-> keepdim],
                   kthvalue(mode, x, PyInt(k), axis, keepdim))

CallSearchsorted ==
    /\ Idle
    /\ \E sorted_sequence \in
              SearchSequences \cup {DocSearchSequence, DocSearchVector},
          out_int32 \in BOOLEAN, right \in BOOLEAN :
         \E values \in {v \in SearchValues \cup {DocSearchValues} :
                           C_ops_searchsorted_ok(sorted_sequence, v)} :
           Called("searchsorted",
                  [sorted_sequence |-> sorted_sequence, values |-> values,
                   out_int32 |-> out_int32, right |-> right],
                  searchsorted(mode, sorted_sequence, values, out_int32, right))

CallMode ==
    /\ Idle
    /\ \E x \in SortTensors \cup {DocModeTensor}, keepdim \in BOOLEAN :
         \E axis \in Axes(x) :
           Called("mode", [x |-> x, axis |-> PyInt(axis), keepdim |-> keepdim],
                  paddle_mode(mode, x, axis, keepdim))

CallMaskedSelect ==
    /\ Idle
    /\ \/ \E x \in MaskedOperands, mask \in BoolTensors :
            Called("masked_select", [x |-> x, mask |-> mask],
                   masked_select(mode, x, mask))
       \/ Called("masked_select", [x |-> DocMaskedX, mask |-> DocMask],
                 masked_select(mode, DocMaskedX, DocMask))

CallIndexSelect ==
    /\ Idle
    /\ \/ \E x \in IndexSelectOperands, index \in IndexVectors :
            \E axis \in Axes(x) :
              Called("index_select", [x |-> x, index |-> index, axis |-> PyInt(axis)],
                     index_select(mode, x, index, axis))
       \/ \E axis \in Axes(DocIndexSelectX) :
            Called("index_select",
                   [x |-> DocIndexSelectX, index |-> DocIndexSelectIndex,
                    axis |-> PyInt(axis)],
                   index_select(mode, DocIndexSelectX, DocIndexSelectIndex, axis))

CallIndexSample ==
    /\ Idle
    /\ \/ \E x \in IndexSampleOperands, index \in IndexMatrices :
            Called("index_sample", [x |-> x, index |-> index],
                   index_sample(mode, x, index))
       \/ \E p \in {<<DocIndexSampleX, DocIndexSampleIndex>>,
                    <<DocIndexSampleTarget, DocIndexSampleTopIndex>>} :
            Called("index_sample", [x |-> p[1], index |-> p[2]],
                   index_sample(mode, p[1], p[2]))

CallWhereInplace ==
    /\ Idle
    /\ \E c \in BoolTensors, x \in WhereOperands(XStart), y \in WhereOperands(YStart) :
           Called("where_", [condition |-> c, x |-> x, y |-> y],
                  where_(mode, c, x, y))

CallBeamSearchSoftmax ==
    /\ Idle
    /\ \E beam_width \in BeamInts, beam_group_num \in BeamInts,
          fuse_softmax \in BOOLEAN, early_stop \in BOOLEAN :
           Called("beam_search_softmax",
                  [beam_width |-> beam_width, beam_group_num |-> beam_group_num,
                   fuse_softmax |-> fuse_softmax, early_stop |-> early_stop],
                  beam_search_softmax(mode, beam_width, beam_group_num,
                                      fuse_softmax, early_stop))

Next ==
    \/ CallWhere
    \/ CallNonzero
    \/ CallArgmax
    \/ CallArgmin
    \/ CallBucketize
    \/ CallArgsort
    \/ CallArgsortDocExample
    \/ CallSort
    \/ CallTopk
    \/ CallKthvalue
    \/ CallSearchsorted
    \/ CallMode
    \/ CallMaskedSelect
    \/ CallIndexSelect
    \/ CallIndexSample
    \/ CallWhereInplace
    \/ CallBeamSearchSoftmax

Spec == Init /\ [][Next]_vars

----------------------------------------------------------------------------
(* Calls one after another on tensors the program holds *)

\* the tensors the program holds: a condition, the operands x and y of where
\* and an index; x holds XStart+1, XStart+2, ... and y holds YStart+1, ...
Heaps ==
    [condition : {Tensor(<<2>>, "bool", <<1, 0>>),
                  Tensor(<<2, 1>>, "bool", <<0, 1>>),
                  Tensor(<<2, 2>>, "bool", <<0, 1, 1, 1>>)},
     x : {Arange(s, "int64", XStart + 1) : s \in {<<2>>, <<2, 2>>}},
     y : {Arange(s, "int64", YStart + 1) : s \in {<<2>>, <<2, 2>>}},
     index : {Tensor(<<2>>, "int64", <<0, 2>>),
              Tensor(<<2, 2>>, "int64", <<1, 0, 0, 0>>)}]

InitSeq ==
    /\ mode \in Modes
    /\ api = "none"
    /\ args = [x |-> PyNone]
    /\ ops = <<>>
    /\ err = "none"
    /\ out = NoValue
    /\ mem \in Heaps

\* the tensor of a value held or passed
TensorOf(v) == IF "kind" \in DOMAIN v THEN v.t ELSE v

\* the tensors held once a call has returned: bind names, for each parameter
\* that was given a tensor held, that tensor; passed holds the operands as
\* the call left them
Rebound(store, passed, bind) ==
    [h \in DOMAIN store |->
        IF \E p \in DOMAIN bind : bind[p] = h
        THEN TensorOf(passed[CHOOSE p \in DOMAIN bind : bind[p] = h])
        ELSE store[h]]

\* a call of a wrapper on the operands a, of which bind names those that are
\* tensors held
Performed(name, a, bind, result) ==
    \E r \in {result} :
        /\ api' = name
        /\ args' = a
        /\ ops' = r.ops
        /\ err' = r.err
        /\ out' = r.out
        /\ mem' = Rebound(mem, Stored(a, r.ops), bind)
        /\ UNCHANGED mode

\* the parameters of S, each given the tensor held under its own name
SameNames(S) == [p \in S |-> p]

\* the operand x or y of where: the tensor held, or None
Held(h, passed) == IF passed THEN PyTensor(mem[h]) ELSE PyNone

SeqWhereArgs(px, py) ==
    [condition |-> mem.condition, x |-> Held("x", px), y |-> Held("y", py)]

SeqWhereBind(px, py) ==
    SameNames({"condition"} \cup (IF px THEN {"x"} ELSE {})
                  \cup (IF py THEN {"y"} ELSE {}))

SeqWhere ==
    \E px \in BOOLEAN, py \in BOOLEAN :
        Performed("where", SeqWhereArgs(px, py), SeqWhereBind(px, py),
                  where(mode, mem.condition, Held("x", px), Held("y", py)))

SeqWhereInplace ==
    \E px \in BOOLEAN, py \in BOOLEAN :
        Performed("where_", SeqWhereArgs(px, py), SeqWhereBind(px, py),
                  where_(mode, mem.condition, Held("x", px), Held("y", py)))

SeqNonzero ==
    \E h \in {"condition", "x"} :
        Performed("nonzero", [x |-> mem[h], as_tuple |-> FALSE], [x |-> h],
                  nonzero(mode, mem[h], FALSE))

\* the axis arguments of the calls on the tensors held: None and the last axis
SeqAxes == {PyNone, PyInt(-1)}

SeqArgmax ==
    \E axis \in SeqAxes :
        Performed("argmax",
                  [x |-> mem.x, axis |-> axis, keepdim |-> FALSE, dtype |-> "int64"],
                  SameNames({"x"}), argmax(mode, mem.x, axis, FALSE, "int64"))

SeqArgmin ==
    \E axis \in SeqAxes :
        Performed("argmin",
                  [x |-> mem.x, axis |-> axis, keepdim |-> FALSE, dtype |-> "int64"],
                  SameNames({"x"}), argmin(mode, mem.x, axis, FALSE, "int64"))

\* the sorts are stable: ties keep their order
SeqArgsort ==
    \E descending \in BOOLEAN :
        Performed("argsort", SortArgs(mem.x, -1, descending, TRUE),
                  SameNames({"x"}),
                  argsort(mode, mem.x, -1, descending, TRUE,
                          Identity(AxisLen(mem.x, PyNone))))

SeqSort ==
    \E descending \in BOOLEAN :
        Performed("sort", SortArgs(mem.x, -1, descending, TRUE),
                  SameNames({"x"}),
                  sort(mode, mem.x, -1, descending, TRUE,
                       Identity(AxisLen(mem.x, PyNone))))

\* k is 1, or one more than the axis holds, which is an error
SeqTopk ==
    \E k \in {1, AxisLen(mem.x, PyNone) + 1} :
        Performed("topk",
                  [x |-> mem.x, k |-> PyInt(k), axis |-> PyNone,
                   largest |-> TRUE, sorted |-> TRUE],
                  SameNames({"x"}),
                  topk(mode, mem.x, PyInt(k), PyNone, TRUE, TRUE,
                       Identity(Min2(k, AxisLen(mem.x, PyNone)))))

SeqKthvalue ==
    \E k \in {1, AxisLen(mem.x, PyNone) + 1} :
        Performed("kthvalue",
                  [x |-> mem.x, k |-> PyInt(k), axis |-> PyNone, keepdim |-> FALSE],
                  SameNames({"x"}), kthvalue(mode, mem.x, PyInt(k), PyNone, FALSE))

SeqMode ==
    \E keepdim \in BOOLEAN :
        Performed("mode", [x |-> mem.x, axis |-> PyInt(-1), keepdim |-> keepdim],
                  SameNames({"x"}), paddle_mode(mode, mem.x, -1, keepdim))

SeqMaskedSelect ==
    Performed("masked_select", [x |-> mem.x, mask |-> mem.condition],
              [x |-> "x", mask |-> "condition"],
              masked_select(mode, mem.x, mem.condition))

\* the index held is out of range for some x, which is an error
SeqIndexSelect ==
    \E axis \in {0, -1} :
        Performed("index_select",
                  [x |-> mem.x, index |-> mem.index, axis |-> PyInt(axis)],
                  SameNames({"x", "index"}),
                  index_select(mode, mem.x, mem.index, axis))

SeqIndexSample ==
    Performed("index_sample", [x |-> mem.x, index |-> mem.index],
              SameNames({"x", "index"}), index_sample(mode, mem.x, mem.index))

\* y is searched for the values of x: y holds an increasing sequence
SeqSearchsorted ==
    /\ C_ops_searchsorted_ok(mem.y, mem.x)
    /\ \E right \in BOOLEAN :
        Performed("searchsorted",
                  [sorted_sequence |-> mem.y, values |-> mem.x,
                   out_int32 |-> FALSE, right |-> right],
                  [sorted_sequence |-> "y", values |-> "x"],
                  searchsorted(mode, mem.y, mem.x, FALSE, right))

SeqBucketize ==
    \E right \in BOOLEAN :
        Performed("bucketize",
                  [x |-> mem.x, sorted_sequence |-> mem.y,
                   out_int32 |-> FALSE, right |-> right],
                  [x |-> "x", sorted_sequence |-> "y"],
                  bucketize(mode, mem.x, mem.y, FALSE, right))

NextSeq ==
    \/ SeqWhere
    \/ SeqWhereInplace
    \/ SeqNonzero
    \/ SeqArgmax
    \/ SeqArgmin
    \/ SeqArgsort
    \/ SeqSort
    \/ SeqTopk
    \/ SeqKthvalue
    \/ SeqMode
    \/ SeqMaskedSelect
    \/ SeqIndexSelect
    \/ SeqIndexSample
    \/ SeqSearchsorted
    \/ SeqBucketize

SeqSpec == InitSeq /\ [][NextSeq]_vars

----------------------------------------------------------------------------
(* where *)

BothOmitted == api = "where" /\ args.x.kind = "None" /\ args.y.kind = "None"

OneOmitted ==
    api = "where" /\ (args.x.kind = "None") # (args.y.kind = "None")

\* C1: where(condition) with x and y both omitted returns what
\* nonzero(condition, as_tuple=True) returns, the same tuple of the same index
\* tensors, and dispatches what nonzero dispatches: no elementwise select
C1_WhereIsNonzeroAsTuple ==
    BothOmitted =>
        LET r == nonzero(mode, args.condition, TRUE)
        IN  /\ err = r.err
            /\ out = r.out
            /\ ops = r.ops
            /\ "where" \notin OpNames(ops)

\* a condition of rank 2 with two true elements: a tuple of two [2, 1] tensors
C1_Witness ==
    /\ BothOmitted
    /\ err = "none"
    /\ out.kind = "tuple"
    /\ Len(out.items) = 2
    /\ out.items[1].shape = <<2, 1>>

\* C2 as claimed: with exactly one of x and y omitted where raises ValueError,
\* returns nothing and has dispatched no operator at all
C2_NothingDispatchedBeforeError ==
    OneOmitted => err = "ValueError" /\ out = NoValue /\ ops = <<>>

\* C2 amended: with exactly one of x and y omitted where raises ValueError and
\* returns nothing, in every mode; neither a select nor a nonzero has been
\* dispatched; a supplied scalar has been made a tensor by one full, and
\* with a supplied tensor nothing at all has been dispatched
C2_OneOmittedRaises ==
    OneOmitted =>
        /\ err = "ValueError"
        /\ out = NoValue
        /\ Dispatched(ops) = {}
        /\ LET given == IF args.x.kind = "None" THEN args.y ELSE args.x
           IN  IF given.kind = "scalar"
               THEN Len(ops) = 1 /\ ops[1].op = "full"
               ELSE ops = <<>>

\* y omitted and x a scalar: the error follows the full
C2_Witness ==
    /\ OneOmitted
    /\ args.x.kind = "scalar"
    /\ err = "ValueError"
    /\ Len(ops) = 1

\* the operand of where as a tensor: a scalar is a tensor of one element
AsTensor(v) ==
    IF v.kind = "scalar" THEN Tensor(<<1>>, ScalarDtype, <<v.val>>) ELSE v.t

BothGiven == api = "where" /\ args.x.kind # "None" /\ args.y.kind # "None"

Compatible(c, x, y) ==
    /\ BroadcastOK(x.shape, y.shape)
    /\ BroadcastOK(BroadcastShape(x.shape, y.shape), c.shape)

CommonShape(c, x, y) ==
    BroadcastShape(BroadcastShape(x.shape, y.shape), c.shape)

----------------------------------------------------------------------------
(* argmax, argmin *)

ArgCall == api \in {"argmax", "argmin"}

AxisKindOK == args.axis.kind \in {"None", "int", "Tensor"}

\* C5 as claimed: with dtype None, argmax and argmin raise ValueError for
\* every x, axis and keepdim, before anything is dispatched
C5_DtypeNoneAlwaysValueError ==
    (ArgCall /\ args.dtype = "None") =>
        err = "ValueError" /\ out = NoValue /\ ops = <<>>

\* C5 amended: with dtype None, argmax and argmin raise ValueError for every
\* x and keepdim and every axis that is None, an integer or a tensor, in
\* every mode and before anything is dispatched; with an axis of another type
\* the TypeError of the axis test comes first, nothing dispatched either
C5_DtypeNoneRaises ==
    (ArgCall /\ args.dtype = "None") =>
        /\ err = (IF AxisKindOK THEN "ValueError" ELSE "TypeError")
        /\ out = NoValue
        /\ ops = <<>>

C5_Witness ==
    /\ api = "argmin"
    /\ args.dtype = "None"
    /\ args.axis.kind = "int"
    /\ mode = "static"
    /\ err = "ValueError"

\* C6: argmax and argmin raise TypeError, nothing dispatched, in every mode
\* when axis is neither None, an integer nor a tensor; when it is one of the
\* three, a TypeError comes from the dtype check of the graph modes only,
\* never from the axis
C6_AxisTypeError ==
    ArgCall =>
        IF AxisKindOK
        THEN err = "TypeError" =>
                 mode # "dynamic" /\ args.dtype \notin {"None", "int32", "int64"}
        ELSE err = "TypeError" /\ out = NoValue /\ ops = <<>>

\* a float axis raises, and a tensor axis is let through to the kernel
C6_Witness ==
    /\ api = "argmax"
    /\ args.axis.kind = "float"
    /\ args.dtype = "int64"
    /\ mode = "dynamic"
    /\ err = "TypeError"

\* the largest and the smallest element of a sequence
MaxOf(v) == CHOOSE a \in {v[j] : j \in 1..Len(v)} : \A j \in 1..Len(v) : v[j] <= a

MinOf(v) == CHOOSE a \in {v[j] : j \in 1..Len(v)} : \A j \in 1..Len(v) : v[j] >= a

ExtremeOf(v) == IF api = "argmax" THEN MaxOf(v) ELSE MinOf(v)

\* the axis (1-based) of a call whose axis is set, and the shape its result
\* has
CallAxis == NormAxis(AxisValue(args.axis), Len(AxisShape(args.x.shape))) + 1

CallReducedShape ==
    IF args.x.shape = <<>> THEN <<>>
    ELSE ReducedShape(args.x.shape, CallAxis, args.keepdim)

\* C7: with axis None the wrappers forward flatten=true and axis 0, and the
\* result is one index into the row-major order of the whole tensor; with an
\* axis they forward flatten=false and the axis itself, and the result has
\* one index for each slice along the axis
C7_FlattenForwarded ==
    (ArgCall /\ ops # <<>>) =>
        /\ Len(ops) = 1
        /\ ops[1].attrs.keepdim = args.keepdim
        /\ ops[1].attrs.dtype = args.dtype
        /\ IF args.axis.kind = "None"
           THEN /\ ops[1].attrs.flatten
                /\ ops[1].attrs.axis = PyInt(0)
                /\ err = "none" =>
                      /\ Numel(out.t) = 1
                      /\ out.t.data[1] \in 0..(Numel(args.x) - 1)
                      /\ args.x.data[out.t.data[1] + 1] = ExtremeOf(args.x.data)
           ELSE /\ ~ops[1].attrs.flatten
                /\ ops[1].attrs.axis = args.axis
                /\ err = "none" =>
                      /\ out.t.shape = CallReducedShape
                      /\ Len(out.t.data) = Prod(CallReducedShape)

\* argmin of a [2, 2] tensor without axis: one index, and it is past the
\* first row
C7_Witness ==
    /\ api = "argmin"
    /\ args.axis.kind = "None"
    /\ args.x.shape = <<2, 2>>
    /\ err = "none"
    /\ out.t.data[1] >= 2

\* the slice that element i (1-based) of the result of the call stands for
CallSlice(i) ==
    IF args.axis.kind = "None" THEN args.x.data
    ELSE SliceAt(args.x, CallAxis, i - 1, args.keepdim)

\* C8: every index argmax (argmin) returns is the lowest position of its
\* slice that holds the maximum (minimum) of the slice, so x gathered at the
\* index is the maximum (minimum); argmax of [5, 5, 3] is 0 and argmin of
\* the flattened [[5,8,9,5],[0,0,1,7],[6,9,2,4]] is 4
C8_FirstExtreme ==
    (ArgCall /\ err = "none") =>
        /\ \A i \in 1..Len(out.t.data) :
              LET v == CallSlice(i)
                  k == out.t.data[i] + 1
              IN  /\ k \in 1..Len(v)
                  /\ v[k] = ExtremeOf(v)
                  /\ \A j \in 1..(k - 1) : v[j] # v[k]
        /\ (api = "argmax" /\ args.x = DocTie /\ args.axis.kind = "None") =>
              out.t.data = <<0>>
        /\ (api = "argmin" /\ args.x = DocMatrix /\ args.axis.kind = "None") =>
              out.t.data = <<4>>

\* argmax along axis 0 of a [3] tensor whose maximum occurs twice
C8_Witness ==
    /\ api = "argmax"
    /\ args.x = DocTie
    /\ args.axis = PyInt(0)
    /\ err = "none"
    /\ out.t.data = <<0>>
----------------------------------------------------------------------------
(* bucketize *)

BucketizeCall == api = "bucketize"

\* C4 as claimed: bucketize raises ValueError, nothing dispatched, whenever
\* sorted_sequence is not 1-D, and for every 1-D sorted_sequence returns
\* what searchsorted(sorted_sequence, x, out_int32, right) returns
C4_BucketizeForEverySequence ==
    BucketizeCall =>
        IF Rank(args.sorted_sequence) # 1
        THEN err = "ValueError" /\ out = NoValue /\ ops = <<>>
        ELSE LET r == searchsorted(mode, args.sorted_sequence, args.x,
                                   args.out_int32, args.right)
             IN  err = r.err /\ out = r.out /\ ops = r.ops

\* C4 amended: for a sorted_sequence whose dtype is float32, float64, int32 or
\* int64, bucketize raises ValueError, nothing dispatched, whenever the
\* sequence is not 1-D, and for a 1-D sequence returns what
\* searchsorted(sorted_sequence, x, out_int32, right) returns, x being the
\* values searched for and out_int32 and right passed on as given; for a
\* sequence of another dtype bucketize raises TypeError outside dynamic mode,
\* whatever the rank
C4_BucketizeDelegates ==
    BucketizeCall =>
        LET r == searchsorted(mode, args.sorted_sequence, args.x,
                              args.out_int32, args.right)
        IN  IF args.sorted_sequence.dtype \notin BucketizeDtypes /\ mode # "dynamic"
            THEN err = "TypeError" /\ out = NoValue /\ ops = <<>>
            ELSE IF Rank(args.sorted_sequence) # 1
            THEN err = "ValueError" /\ out = NoValue /\ ops = <<>>
            ELSE /\ err = r.err /\ out = r.out /\ ops = r.ops
                 /\ err = "none"
                 /\ Len(ops) = 1
                 /\ ops[1].op = "searchsorted"
                 /\ ops[1].attrs = [out_int32 |-> args.out_int32, right |-> args.right]
                 /\ out.t.shape = args.x.shape
                 /\ (args.sorted_sequence = DocSequence /\ args.x = DocValues) =>
                        out.t.data = IF args.right THEN <<0, 3, 2, 4, 0, 1, 3, 2>>
                                     ELSE <<0, 2, 1, 3, 0, 0, 2, 1>>

\* the call of the docstring, with right
C4_Witness ==
    /\ BucketizeCall
    /\ args.sorted_sequence = DocSequence
    /\ args.x = DocValues
    /\ args.right
    /\ err = "none"
    /\ out.t.data = <<0, 3, 2, 4, 0, 1, 3, 2>>

----------------------------------------------------------------------------
(* argsort and sort *)

SortCall == api \in {"argsort", "sort"}

\* dimension (1-based) the call sorts along
SortAxis == NormAxis(args.axis.val, Rank(args.x)) + 1

\* the tie orders the kernel may use in another call with the same arguments
SortTies ==
    IF args.stable THEN {Identity(args.x.shape[SortAxis])}
    ELSE Perms(args.x.shape[SortAxis])

\* x read, along dimension ax, at the positions ids holds
Gather(x, ids, ax) ==
    Tensor(ids.shape, x.dtype,
           [i \in 1..Numel(ids) |->
               x.data[Ravel([Unravel(i - 1, ids.shape) EXCEPT ![ax] = ids.data[i]],
                            x.shape) + 1]])

\* C9: for every x, axis, descending and stable, x gathered along the axis
\* with the indices argsort returns is exactly what sort returns for the same
\* arguments, whatever order the kernel leaves equal elements in; each of the
\* two dispatches one native argsort with the (axis, descending, stable) of
\* the call
C9_GatherArgsortIsSort ==
    SortCall =>
        /\ err = "none"
        /\ Len(ops) = 1
        /\ ops[1].op = "argsort"
        /\ ops[1].attrs = ArgsortAttrs(args.axis.val, args.descending, args.stable)
        /\ \A tie \in SortTies :
            LET s == sort(mode, args.x, args.axis.val, args.descending,
                          args.stable, tie)
                a == argsort(mode, args.x, args.axis.val, args.descending,
                             args.stable, tie)
            IN  /\ s.err = "none" /\ a.err = "none"
                /\ s.ops[1].op = a.ops[1].op
                /\ s.ops[1].attrs = a.ops[1].attrs
                /\ api = "argsort" => Gather(args.x, out.t, SortAxis) = s.out.t
                /\ api = "sort" => Gather(args.x, a.out.t, SortAxis) = out.t

\* an unstable descending sort of a matrix with equal elements along its
\* first axis, which changes the matrix
C9_Witness ==
    /\ api = "sort"
    /\ err = "none"
    /\ ~args.stable
    /\ args.descending
    /\ args.x.shape = <<2, 2>>
    /\ args.axis.val = 0
    /\ args.x.data = <<0, 1, 1, 1>>
    /\ out.t.data = <<1, 1, 0, 1>>

\* the elements at positions i and j (1-based, linear) are in the same slice
\* along the sorted axis
SameSlice(i, j) ==
    LET ci == Unravel(i - 1, args.x.shape)
        cj == Unravel(j - 1, args.x.shape)
    IN  \A d \in 1..Rank(args.x) : d # SortAxis => ci[d] = cj[d]

\* position of element i along the sorted axis
AlongAxis(i) == Unravel(i - 1, args.x.shape)[SortAxis]

\* the slice through element i is already in the order asked for
SliceSorted(i) ==
    LET v == AxisSlice(args.x, SortAxis, Unravel(i - 1, args.x.shape))
    IN  \A k \in 1..(Len(v) - 1) :
            IF args.descending THEN v[k] >= v[k + 1] ELSE v[k] <= v[k + 1]

\* C10: with stable=True the indices of equal elements come out in ascending
\* original order, ascending and descending; [1, 0] * 40 gives the odd
\* indices 1, 3, ..., 79 and then the even indices 0, 2, ..., 78; a slice
\* already sorted gets the identity permutation
C10_StableKeepsOriginalOrder ==
    (api = "argsort" /\ args.stable) =>
        /\ err = "none"
        /\ LET g == Gather(args.x, out.t, SortAxis)
           IN  \A i, j \in 1..Numel(args.x) :
                 (SameSlice(i, j) /\ AlongAxis(i) < AlongAxis(j)
                    /\ g.data[i] = g.data[j])
                 => out.t.data[i] < out.t.data[j]
        /\ \A i \in 1..Numel(args.x) :
             SliceSorted(i) => out.t.data[i] = AlongAxis(i)
        /\ (args.x = DocRepeat /\ ~args.descending) =>
             \A i \in 1..DocRepeatLen :
                out.t.data[i] = IF 2 * i <= DocRepeatLen THEN 2 * i - 1
                                ELSE 2 * i - DocRepeatLen - 2

\* the stable ascending call of the docstring
C10_Witness ==
    /\ api = "argsort"
    /\ args.stable
    /\ ~args.descending
    /\ args.x = DocRepeat
    /\ err = "none"
    /\ out.t.data[1] = 1
    /\ out.t.data[40] = 79
    /\ out.t.data[41] = 0
    /\ out.t.data[80] = 78

\* how many elements of the sequence v equal val
Count(v, val) == Cardinality({j \in 1..Len(v) : v[j] = val})

\* the elements of v are in the order asked for
Ordered(v, descending) ==
    \A k \in 1..(Len(v) - 1) :
        IF descending THEN v[k] >= v[k + 1] ELSE v[k] <= v[k + 1]

\* C11: for every x, axis, descending and stable, sort returns a tensor of
\* the shape of x whose slices along the axis hold the elements of the slices
\* of x, as many times each, non-decreasing, or non-increasing when
\* descending; argsort returns in every slice a permutation of 0..n-1, stable
\* or not
C11_SortOrdersEverySlice ==
    SortCall =>
        /\ err = "none"
        /\ out.t.shape = args.x.shape
        /\ \A i \in 1..Numel(args.x) :
            SliceStart(args.x, SortAxis, i) = i =>
                LET c    == Unravel(i - 1, args.x.shape)
                    vin  == AxisSlice(args.x, SortAxis, c)
                    vout == AxisSlice(out.t, SortAxis, c)
                IN  /\ api = "sort" =>
                        /\ \A j \in 1..Len(vin) :
                               Count(vout, vin[j]) = Count(vin, vin[j])
                        /\ Ordered(vout, args.descending)
                    /\ api = "argsort" =>
                        {vout[j] : j \in 1..Len(vout)} = 0..(Len(vin) - 1)

\* an unstable ascending sort of the columns of a matrix
C11_Witness ==
    /\ api = "sort"
    /\ ~args.stable
    /\ ~args.descending
    /\ args.x.shape = <<2, 2>>
    /\ args.axis.val = -2
    /\ args.x.data = <<1, 0, 0, 1>>
    /\ err = "none"
    /\ out.t.data = <<0, 0, 1, 1>>

----------------------------------------------------------------------------
(* topk and kthvalue *)

TopkCall == api = "topk"

\* the axis argument of the call as a number
KAxisValue == IF args.axis.kind = "None" THEN DefaultAxis ELSE args.axis.val

\* dimension (1-based) the call selects along
KAxis == NormAxis(KAxisValue, Rank(args.x)) + 1

\* the k of the call fits the axis
KFits == KValue(args.k) >= 1 /\ KValue(args.k) <= args.x.shape[KAxis]

\* the first element (1-based, linear) of every slice of a tensor of the
\* given shape along dimension ax
SliceStarts(shape, ax) ==
    {i \in 1..Prod(shape) : Unravel(i - 1, shape)[ax] = 0}

\* the slice along dimension ax of tensor t through the coordinates c
SliceOf(t, ax, c) == AxisSlice(t, ax, c)

\* C12: for every x, axis and k within the axis length, the values of
\* topk(x, k, axis, largest, sorted=True) are ordered along the axis,
\* non-increasing when largest, and are the first k elements of
\* sort(x, axis, descending=largest); x gathered at the returned indices gives
\* the returned values; with sorted=False every slice holds the same values
\* as many times each
C12_TopkIsPrefixOfSort ==
    (TopkCall /\ KFits) =>
        /\ err = "none"
        /\ LET x    == args.x
               k    == KValue(args.k)
               vals == out.items[1]
               idx  == out.items[2]
           IN  /\ vals.shape = TopkShape(x.shape, KAxis, k)
               /\ idx.shape = vals.shape
               /\ Gather(x, idx, KAxis) = vals
               /\ \A tie \in Perms(x.shape[KAxis]) :
                   LET s == sort(mode, x, KAxisValue, args.largest, FALSE, tie).out.t
                   IN  \A i \in SliceStarts(vals.shape, KAxis) :
                        LET c      == Unravel(i - 1, vals.shape)
                            got    == SliceOf(vals, KAxis, c)
                            prefix == SubSeq(SliceOf(s, KAxis, c), 1, k)
                        IN  /\ args.sorted =>
                                (got = prefix /\ Ordered(got, args.largest))
                            /\ \A j \in 1..k :
                                Count(got, prefix[j]) = Count(prefix, prefix[j])

\* the largest two of the second row of the docstring's matrix, returned
\* unsorted in the other order
C12_Witness ==
    /\ TopkCall
    /\ args.x = DocTopkMatrix
    /\ args.largest
    /\ ~args.sorted
    /\ args.axis.kind = "None"
    /\ KValue(args.k) = 2
    /\ err = "none"
    /\ out.items[1].data = <<5, 7, 5, 6>>
    /\ out.items[2].data = <<2, 3, 3, 1>>

\* value a is ahead of value b in the order topk selects by
Ahead(a, b, largest) == IF largest THEN a > b ELSE a < b

\* C13: topk returns k distinct positions of every slice; a position it
\* returns holds a value ahead of that of every position it leaves out, or
\* the same value at a lower position, so elements equal to the boundary
\* value are taken in ascending original order; with sorted=True equal
\* returned values are in ascending original order too; for largest=True and
\* largest=False alike
C13_TopkBoundaryTiesByIndex ==
    (TopkCall /\ KFits) =>
        /\ err = "none"
        /\ LET x   == args.x
               k   == KValue(args.k)
               idx == out.items[2]
               n   == x.shape[KAxis]
           IN  \A i \in SliceStarts(idx.shape, KAxis) :
                LET c   == Unravel(i - 1, idx.shape)
                    v   == SliceOf(x, KAxis, c)
                    got == SliceOf(idx, KAxis, c)
                    sel == {got[j] : j \in 1..k}
                IN  /\ sel \subseteq 0..(n - 1)
                    /\ Cardinality(sel) = k
                    /\ \A q \in sel : \A p \in (0..(n - 1)) \ sel :
                        \/ Ahead(v[q + 1], v[p + 1], args.largest)
                        \/ (v[q + 1] = v[p + 1] /\ q < p)
                    /\ args.sorted =>
                        \A a, b \in 1..k :
                            (a < b /\ v[got[a] + 1] = v[got[b] + 1])
                                => got[a] < got[b]

\* the smallest element of each row of the docstring's matrix: the second
\* row holds its smallest value 2 at positions 0 and 2
C13_Witness ==
    /\ TopkCall
    /\ args.x = DocTopkMatrix
    /\ ~args.largest
    /\ args.sorted
    /\ KAxis = 2
    /\ KValue(args.k) = 1
    /\ err = "none"
    /\ out.items[1].data = <<1, 2>>
    /\ out.items[2].data = <<0, 0>>

KthvalueCall == api = "kthvalue"

\* C14: topk and kthvalue raise an error and return nothing whenever k is
\* greater than the length of the selected axis, k an integer or, for topk,
\* a scalar tensor
C14_KBeyondAxisIsRejected ==
    ((TopkCall \/ KthvalueCall) /\ KValue(args.k) > args.x.shape[KAxis]) =>
        /\ err = "NativeError"
        /\ out = NoValue

\* topk given, as a scalar tensor, a k one greater than the length of the
\* first axis of the docstring's matrix
C14_Witness ==
    /\ TopkCall
    /\ args.x = DocTopkMatrix
    /\ args.axis = PyInt(0)
    /\ args.k.kind = "Tensor"
    /\ KValue(args.k) = 3
    /\ err = "NativeError"
    /\ out = NoValue

\* C15: for every x, axis and k within the axis length, kthvalue returns
\* for every slice the k-th smallest value, k counted from 1 (fewer than k
\* elements are smaller, at least k are not greater), and a position of the
\* slice holding that value; value and position are the k-th element of
\* topk(x, k, axis, largest=False, sorted=True)
C15_KthvalueIsKthOfTopk ==
    (KthvalueCall /\ KFits) =>
        /\ err = "none"
        /\ LET x    == args.x
               k    == KValue(args.k)
               vals == out.items[1]
               idx  == out.items[2]
               kd   == Rank(vals) = Rank(x)
               t    == topk(mode, x, args.k, args.axis, FALSE, TRUE, Identity(k)).out
               ts   == TopkShape(x.shape, KAxis, k)
           IN  /\ idx.shape = vals.shape
               /\ Numel(vals) * x.shape[KAxis] = Numel(x)
               /\ \A i \in 1..Numel(vals) :
                   LET v  == SliceAt(x, KAxis, i - 1, kd)
                       c  == WithAxis(Unravel(i - 1, vals.shape), KAxis, k - 1, kd)
                       ti == Ravel(c, ts) + 1
                   IN  /\ Cardinality({j \in 1..Len(v) : v[j] < vals.data[i]}) < k
                       /\ Cardinality({j \in 1..Len(v) : v[j] <= vals.data[i]}) >= k
                       /\ v[idx.data[i] + 1] = vals.data[i]
                       /\ t.items[1].data[ti] = vals.data[i]
                       /\ t.items[2].data[ti] = idx.data[i]
                       /\ k = 1 => \A j \in 1..Len(v) : vals.data[i] <= v[j]

\* the second smallest of each column of the docstring's matrix of topk
C15_Witness ==
    /\ KthvalueCall
    /\ args.x = DocTopkMatrix
    /\ args.axis = PyInt(0)
    /\ KValue(args.k) = 2
    /\ err = "none"
    /\ out.items[1].data = <<2, 6, 5, 7>>
    /\ out.items[2].data = <<1, 1, 0, 0>>

----------------------------------------------------------------------------
(* searchsorted *)

SearchsortedCall == api = "searchsorted"

\* the row of the sequence that element i (1-based) of values is searched
\* in: the sequence itself when 1-D, else its row at the leading coordinates
\* of the element
SearchedRow(i) ==
    LET seq == args.sorted_sequence
    IN  IF Rank(seq) = 1 THEN seq.data
        ELSE AxisSlice(seq, Rank(seq), Unravel(i - 1, args.values.shape))

\* C16: for every sequence of sorted rows and every value v, searchsorted
\* returns the first position whose element is not less than v, or with
\* right=True the first whose element is greater than v, the row length if
\* there is none; a 1-D sequence serves every row of values; the docstring's
\* sequences and values give the docstring's outputs
C16_SearchsortedInsertionIndex ==
    SearchsortedCall =>
        /\ err = "none"
        /\ out.t.shape = args.values.shape
        /\ out.t.dtype = (IF args.out_int32 THEN "int32" ELSE "int64")
        /\ \A i \in 1..Numel(args.values) :
            LET row == SearchedRow(i)
                v   == args.values.data[i]
                p   == out.t.data[i]
            IN  /\ p \in 0..Len(row)
                /\ \A q \in 1..p :
                       IF args.right THEN row[q] <= v ELSE row[q] < v
                /\ p < Len(row) =>
                       IF args.right THEN row[p + 1] > v ELSE row[p + 1] >= v
        /\ (args.values = DocSearchValues /\ args.sorted_sequence = DocSearchVector) =>
               out.t.data = IF args.right THEN <<2, 3, 5, 5, 2, 3, 5, 5>>
                            ELSE <<1, 3, 4, 5, 1, 3, 4, 5>>
        /\ (args.values = DocSearchValues /\ args.sorted_sequence = DocSearchSequence) =>
               out.t.data = IF args.right THEN <<2, 3, 5, 5, 1, 3, 4, 5>>
                            ELSE <<1, 3, 4, 5, 1, 2, 4, 4>>

\* the docstring's call with right=True on the two-row sequence
C16_Witness ==
    /\ SearchsortedCall
    /\ args.sorted_sequence = DocSearchSequence
    /\ args.values = DocSearchValues
    /\ args.right
    /\ err = "none"
    /\ out.t.data = <<2, 3, 5, 5, 1, 3, 4, 5>>

----------------------------------------------------------------------------
(* nonzero *)

NonzeroCall == api = "nonzero"

\* the positions (1-based, linear) of the nonzero elements of the tensor t
NonzeroSet(t) == {i \in 1..Numel(t) : t.data[i] # 0}

\* row z (1-based) of a 2-D tensor
RowOf(t, z) == SubSeq(t.data, (z - 1) * t.shape[2] + 1, z * t.shape[2])

\* C17: for every x of rank R, nonzero(x) is a [Z, R] tensor with one row
\* for every nonzero element of x and no other row: each row holds the
\* coordinates of a nonzero element, and the rows are in row-major order of
\* the elements; the docstring's matrix gives [[0,0],[1,1],[2,2]]
C17_NonzeroListsCoordinates ==
    (NonzeroCall /\ ~args.as_tuple) =>
        /\ err = "none"
        /\ out.kind = "Tensor"
        /\ out.t.shape = <<Cardinality(NonzeroSet(args.x)), Rank(args.x)>>
        /\ out.t.dtype = "int64"
        /\ \A z \in 1..out.t.shape[1] :
            /\ (Ravel(RowOf(out.t, z), args.x.shape) + 1) \in NonzeroSet(args.x)
            /\ Unravel(Ravel(RowOf(out.t, z), args.x.shape), args.x.shape)
                   = RowOf(out.t, z)
            /\ z > 1 => Ravel(RowOf(out.t, z - 1), args.x.shape)
                            < Ravel(RowOf(out.t, z), args.x.shape)
        /\ args.x = DocNonzeroMatrix => out.t.data = <<0, 0, 1, 1, 2, 2>>
        /\ args.x = DocNonzeroVector => out.t.data = <<1, 3>>

\* the docstring's call on the matrix
C17_Witness ==
    /\ NonzeroCall
    /\ ~args.as_tuple
    /\ args.x = DocNonzeroMatrix
    /\ err = "none"
    /\ out.t.shape = <<3, 2>>
    /\ out.t.data = <<0, 0, 1, 1, 2, 2>>

\* the tensors of a tuple of R columns of Z rows put side by side
ConcatColumns(items, Z, R) ==
    Tensor(<<Z, R>>, "int64",
           [j \in 1..(Z * R) |-> items[((j - 1) % R) + 1].data[((j - 1) \div R) + 1]])

\* C18: for every x of rank R >= 1, nonzero(x, as_tuple=True) is a tuple of
\* R tensors of shape [Z, 1], the i-th being column i of nonzero(x); put
\* side by side they are nonzero(x); for rank 1 the one element is
\* nonzero(x) itself, which is also what the split gives
C18_NonzeroTupleIsColumns ==
    (NonzeroCall /\ args.as_tuple /\ Rank(args.x) >= 1) =>
        /\ err = "none"
        /\ out.kind = "tuple"
        /\ LET nz == nonzero(mode, args.x, FALSE).out.t
               Z  == nz.shape[1]
               R  == Rank(args.x)
           IN  /\ Len(out.items) = R
               /\ \A i \in 1..R :
                   /\ out.items[i].shape = <<Z, 1>>
                   /\ \A z \in 1..Z : out.items[i].data[z] = RowOf(nz, z)[i]
               /\ ConcatColumns(out.items, Z, R) = nz
               /\ R = 1 => (out.items[1] = nz /\ nonzero_split(nz, 1)[1] = nz)

\* a matrix whose nonzero elements have different row and column numbers
C18_Witness ==
    /\ NonzeroCall
    /\ args.as_tuple
    /\ args.x.shape = <<2, 2>>
    /\ args.x.data = <<0, 1, 0, 1>>
    /\ err = "none"
    /\ Len(out.items) = 2
    /\ out.items[1].data = <<0, 1>>
    /\ out.items[2].data = <<1, 1>>

----------------------------------------------------------------------------
(* mode *)

ModeCall == api = "mode"

\* C19: mode(x, axis) returns for every slice a value no other value of the
\* slice occurs more often than, the greatest of those occurring as often,
\* and as index the position of the element that ends the run of that value
\* in the ascending sorted order of the slice, its last occurrence; the
\* docstring's tensor along axis 2 gives [[2,3],[5,9]] and [[2,2],[2,1]]
C19_ModeIsMostFrequentLargest ==
    ModeCall =>
        /\ err = "none"
        /\ LET x    == args.x
               ax   == NormAxis(args.axis.val, Rank(x)) + 1
               vals == out.items[1]
               idx  == out.items[2]
           IN  /\ vals.shape = ReducedShape(x.shape, ax, args.keepdim)
               /\ idx.shape = vals.shape
               /\ \A i \in 1..Numel(vals) :
                   LET v   == SliceAt(x, ax, i - 1, args.keepdim)
                       val == vals.data[i]
                   IN  /\ \A j \in 1..Len(v) :
                           \/ Count(v, v[j]) < Count(v, val)
                           \/ (Count(v, v[j]) = Count(v, val) /\ v[j] <= val)
                       /\ v[idx.data[i] + 1] = val
                       /\ \A j \in 1..Len(v) : v[j] = val => j - 1 <= idx.data[i]
               /\ (x = DocModeTensor /\ ax = 3) =>
                   (vals.data = <<2, 3, 5, 9>> /\ idx.data = <<2, 2, 2, 1>>)

\* the docstring's call
C19_Witness ==
    /\ ModeCall
    /\ args.x = DocModeTensor
    /\ args.axis = PyInt(2)
    /\ ~args.keepdim
    /\ err = "none"
    /\ out.items[1].shape = <<2, 2>>
    /\ out.items[1].data = <<2, 3, 5, 9>>
    /\ out.items[2].data = <<2, 2, 2, 1>>

----------------------------------------------------------------------------
(* masked_select *)

MaskedSelectCall == api = "masked_select"

\* the common shape of x and mask
MaskedShape == BroadcastShape(args.x.shape, args.mask.shape)

----------------------------------------------------------------------------
(* index_sample *)

IndexSampleCall == api = "index_sample"

\* x is [B, N], index is [B, M] and every value of index is in [0, N)
IndexSampleFits ==
    /\ Rank(args.x) = 2
    /\ Rank(args.index) = 2
    /\ args.x.shape[1] = args.index.shape[1]
    /\ \A i \in 1..Numel(args.index) :
           args.index.data[i] \in 0..(args.x.shape[2] - 1)

\* C21: for a 2-D x of shape [B, N] and a 2-D index of shape [B, M] with
\* all values in [0, N), index_sample returns a tensor of shape [B, M] with
\* out[b, m] = x[b, index[b, m]], every row read through its own index row;
\* the two calls of the docstring return what the docstring shows.
C21_IndexSampleGathersPerRow ==
    (IndexSampleCall /\ IndexSampleFits) =>
        /\ err = "none"
        /\ out.kind = "Tensor"
        /\ out.t.shape = args.index.shape
        /\ out.t.dtype = args.x.dtype
        /\ \A b \in 0..(args.index.shape[1] - 1), m \in 0..(args.index.shape[2] - 1) :
               At(out.t, <<b, m>>) = At(args.x, <<b, At(args.index, <<b, m>>)>>)
        /\ (args.x = DocIndexSampleX /\ args.index = DocIndexSampleIndex) =>
               out.t.data = <<1, 2, 3, 6, 7, 8, 9, 9, 9>>
        /\ (args.x = DocIndexSampleTarget /\ args.index = DocIndexSampleTopIndex) =>
               out.t.data = <<400, 300, 800, 700, 1200, 1100>>

\* a call on two rows whose index rows differ
C21_Witness ==
    /\ IndexSampleCall
    /\ args.x.shape = <<2, 2>>
    /\ args.index.shape = <<2, 2>>
    /\ args.index.data = <<0, 1, 1, 1>>
    /\ err = "none"
    /\ out.kind = "Tensor"
    /\ out.t.data = <<XStart + 1, XStart + 2, XStart + 4, XStart + 4>>

----------------------------------------------------------------------------
(* index_select *)

IndexSelectCall == api = "index_select"

\* the dimension (1-based) of x the call indexes
IndexSelectAxis == NormAxis(args.axis.val, Rank(args.x)) + 1

\* every value of index is a position of that dimension
IndexInRange ==
    \A j \in 1..Numel(args.index) :
        args.index.data[j] \in 0..(args.x.shape[IndexSelectAxis] - 1)

\* C22: for a 1-D index whose values are positions of the axis,
\* index_select returns a tensor with index's length along the axis and
\* x's sizes elsewhere, whose j-th slice along the axis is x's slice at
\* index[j], a repeated value repeating the slice; when a value of index is
\* outside [0, size of x along the axis) an error is raised and nothing is
\* returned.  The two calls of the docstring return what the docstring
\* shows.
C22_IndexSelectGathersSlices ==
    (/\ IndexSelectCall
     /\ Rank(args.index) = 1
     /\ args.x.dtype \in {"int64", "float32"}
     /\ args.index.dtype \in {"int32", "int64"}) =>
        IF IndexInRange
        THEN /\ err = "none"
             /\ out.kind = "Tensor"
             /\ Rank(out.t) = Rank(args.x)
             /\ \A d \in 1..Rank(args.x) :
                    out.t.shape[d] = IF d = IndexSelectAxis THEN Numel(args.index)
                                     ELSE args.x.shape[d]
             /\ Len(out.t.data) = Prod(out.t.shape)
             /\ \A i \in 1..Len(out.t.data) :
                    LET c == Unravel(i - 1, out.t.shape)
                        j == c[IndexSelectAxis] + 1
                    IN  out.t.data[i] =
                            At(args.x, [c EXCEPT ![IndexSelectAxis] = args.index.data[j]])
             /\ (args.x = DocIndexSelectX /\ args.axis.val = 0) =>
                    out.t.data = <<1, 2, 3, 4, 5, 6, 7, 8, 5, 6, 7, 8>>
             /\ (args.x = DocIndexSelectX /\ args.axis.val = 1) =>
                    out.t.data = <<1, 2, 2, 5, 6, 6, 9, 10, 10>>
        ELSE err # "none" /\ out = NoValue

\* a call along the columns of a matrix with a repeated index value
C22_Witness ==
    /\ IndexSelectCall
    /\ args.x.shape = <<2, 2>>
    /\ args.axis.val = 1
    /\ args.index.data = <<1, 1, 0>>
    /\ err = "none"
    /\ out.kind = "Tensor"
    /\ out.t.shape = <<2, 3>>
    /\ out.t.data = <<XStart + 2, XStart + 2, XStart + 1,
                      XStart + 4, XStart + 4, XStart + 3>>

----------------------------------------------------------------------------
(* where_ *)

WhereInplaceCall == api = "where_"

BothTensors == args.x.kind = "Tensor" /\ args.y.kind = "Tensor"

----------------------------------------------------------------------------
(* beam_search_softmax *)

BeamCall == api = "beam_search_softmax"

\* 1 <= beam_group_num <= beam_width <= 16 and beam_group_num divides
\* beam_width
BeamValid ==
    /\ 1 <= args.beam_group_num
    /\ args.beam_group_num <= args.beam_width
    /\ args.beam_width <= 16
    /\ args.beam_width % args.beam_group_num = 0

\* C29: beam_search_softmax dispatches the native operator or appends the
\* graph node only with 1 <= beam_group_num <= beam_width <= 16 and
\* beam_group_num dividing beam_width; for every other pair it raises an
\* assertion error and dispatches nothing, in every execution mode.
C29_BeamDispatchOnlyWhenValid ==
    BeamCall =>
        IF BeamValid
        THEN err = "none" /\ Dispatched(ops) # {}
        ELSE err = "AssertionError" /\ Dispatched(ops) = {}

----------------------------------------------------------------------------
(* the execution modes *)

\* the orders in which the build may leave the ties of the sort a asks for
TieOrders(a) ==
    IF a.stable THEN {Identity(a.x.shape[NormAxis(a.axis.val, Rank(a.x)) + 1])}
    ELSE Perms(a.x.shape[NormAxis(a.axis.val, Rank(a.x)) + 1])

\* what the call of the wrapper name on the arguments a may come to in mode
\* m: one outcome for every order in which the build may leave the ties of
\* an unstable sort or the outputs of an unsorted topk
Outcomes(m, name, a) ==
    CASE name = "where" -> {where(m, a.condition, a.x, a.y)}
      [] name = "where_" -> {where_(m, a.condition, a.x, a.y)}
      [] name = "nonzero" -> {nonzero(m, a.x, a.as_tuple)}
      [] name = "argmax" -> {argmax(m, a.x, a.axis, a.keepdim, a.dtype)}
      [] name = "argmin" -> {argmin(m, a.x, a.axis, a.keepdim, a.dtype)}
      [] name = "bucketize" ->
             {bucketize(m, a.x, a.sorted_sequence, a.out_int32, a.right)}
      [] name = "searchsorted" ->
             {searchsorted(m, a.sorted_sequence, a.values, a.out_int32, a.right)}
      [] name = "argsort" ->
             {argsort(m, a.x, a.axis.val, a.descending, a.stable, tie) :
                  tie \in TieOrders(a)}
      [] name = "sort" ->
             {sort(m, a.x, a.axis.val, a.descending, a.stable, tie) :
                  tie \in TieOrders(a)}
      [] name = "topk" ->
             {topk(m, a.x, a.k, a.axis, a.largest, a.sorted, order) :
                  order \in TopkOrders(AxisLen(a.x, a.axis), a.k, a.sorted)}
      [] name = "kthvalue" -> {kthvalue(m, a.x, a.k, a.axis, a.keepdim)}
      [] name = "mode" -> {paddle_mode(m, a.x, a.axis.val, a.keepdim)}
      [] name = "masked_select" -> {masked_select(m, a.x, a.mask)}
      [] name = "index_select" -> {index_select(m, a.x, a.index, a.axis.val)}
      [] name = "index_sample" -> {index_sample(m, a.x, a.index)}
      [] name = "beam_search_softmax" ->
             {beam_search_softmax(m, a.beam_width, a.beam_group_num,
                                  a.fuse_softmax, a.early_stop)}

\* what the call of the state may come to in mode m
OutcomesIn(m) == Outcomes(m, api, args)

\* the call is given an operand of a dtype its wrapper does not list, or
\* argmax or argmin an output dtype other than int32 and int64
UnsupportedDtype ==
    \/ /\ api \in {"argmax", "argmin"}
       /\ args.axis.kind \in {"None", "int", "Tensor"}
       /\ args.dtype \notin {"None", "int32", "int64"}
    \/ api \in {"masked_select", "index_select"} /\ args.x.dtype = "int16"
    \/ api = "index_select" /\ args.index.dtype = "float16"

\* C24: the outcome of a call is the same in every execution mode: it is
\* rejected with the same kind of error or returns the same result, the
\* native operator having been given the same arguments; an operand dtype
\* outside the supported set and an argmax or argmin output dtype other than
\* int32 and int64 are rejected with a type error.  (where_, which is
\* documented as an eager-mode operation, is left out.)
C24_SameOutcomeInEveryMode ==
    (api \notin {"none", "where_"}) =>
        /\ \A m \in Modes : \E r \in OutcomesIn(m) : r.err = err /\ r.out = out
        /\ UnsupportedDtype => err = "TypeError"

----------------------------------------------------------------------------
(* C26: where_ and the shape of x *)

\* the operators of the call that wrote to an operand
Writes == {i \in 1..Len(ops) : "writes" \in DOMAIN ops[i].attrs}

----------------------------------------------------------------------------
(* C30: where_ given a scalar or None *)

\* x or y of the call is a Python scalar or None
ScalarOrNoneGiven ==
    args.x.kind \in {"scalar", "None"} \/ args.y.kind \in {"scalar", "None"}

----------------------------------------------------------------------------
(* C27: where given scalars *)

\* the call of the state is where with x a scalar and y a scalar or a tensor
ScalarXGiven(ykind) ==
    api = "where" /\ args.x.kind = "scalar" /\ args.y.kind = ykind

\* C27: where(condition, sx, sy) on two scalars returns a tensor of the
\* shape of condition that holds sx where condition is true and sy elsewhere;
\* where(condition, sx, y) on a scalar and a tensor returns, or raises, what
\* where(condition, paddle.full([1], sx), y) does.
C27_WhereScalarIsLengthOneTensor ==
    /\ ScalarXGiven("scalar") =>
           /\ err = "none"
           /\ out.kind = "Tensor"
           /\ out.t.shape = args.condition.shape
           /\ \A i \in 1..Prod(args.condition.shape) :
                  out.t.data[i] = IF args.condition.data[i] = 1
                                  THEN args.x.val ELSE args.y.val
    /\ ScalarXGiven("Tensor") =>
           LET r == where(mode, args.condition,
                          PyTensor(paddle_full(<<1>>, args.x.val, ScalarDtype)),
                          args.y)
           IN  err = r.err /\ out = r.out

----------------------------------------------------------------------------
(* C28: the axis of topk and kthvalue *)

\* what a call may return or raise in mode m
ResultsOf(m, name, a) ==
    {[err |-> r.err, out |-> r.out] : r \in Outcomes(m, name, a)}

\* the call of the state with axis in place of its axis argument
CallWithAxis(axis) == [args EXCEPT !.axis = axis]

\* C28: the call of the state being topk or kthvalue, in whichever mode,
\* what came of it is what the wrapper gives for its arguments; if axis is
\* None the call gives what it gives with axis = -1 and with axis = rank - 1;
\* if axis is a negative integer a it gives what it gives with axis = a + rank.
C28_AxisNoneIsLastAxis ==
    (TopkCall \/ KthvalueCall) =>
        LET results == ResultsOf(mode, api, args)
        IN  /\ [err |-> err, out |-> out] \in results
            /\ args.axis.kind = "None" =>
                   /\ results = ResultsOf(mode, api, CallWithAxis(PyInt(-1)))
                   /\ results
                          = ResultsOf(mode, api, CallWithAxis(PyInt(Rank(args.x) - 1)))
            /\ (args.axis.kind = "int" /\ args.axis.val < 0) =>
                   results
                       = ResultsOf(mode, api,
                                   CallWithAxis(PyInt(args.axis.val + Rank(args.x))))

\* topk with axis omitted on the docstring's matrix has returned the two
\* largest of each row, which are not the two largest of each column
C28_Witness ==
    /\ TopkCall
    /\ args.x = DocTopkMatrix
    /\ args.axis.kind = "None"
    /\ args.k = PyInt(2)
    /\ args.largest
    /\ args.sorted
    /\ err = "none"
    /\ out.items[1].data = <<7, 5, 6, 5>>

----------------------------------------------------------------------------
(* C25: the operands after calls made one after another *)

\* x as it was first held
FirstX == Arange(mem.x.shape, "int64", XStart + 1)

\* C25: in every sequence of calls on the tensors held, a call of an
\* operation other than where_, whether it returns or raises, leaves every
\* tensor held as it was, contents and shape; and a call of where_ leaves
\* every tensor other than x as it was.
C25_OnlyWhereInplaceWritesX ==
    [][/\ api' # "where_" => mem' = mem
       /\ mem'.condition = mem.condition
       /\ mem'.y = mem.y
       /\ mem'.index = mem.index]_vars

\* where has taken its fast path on an x that an earlier where_ has
\* written, and x is still as where_ left it
C25_Witness ==
    /\ api = "where"
    /\ err = "none"
    /\ args.x.kind = "Tensor" /\ args.y.kind = "Tensor"
    /\ args.x.t.shape = args.y.t.shape /\ args.condition.shape = args.x.t.shape
    /\ mem.x # FirstX
    /\ mem.x = args.x.t
====
